---- MODULE Spec2Model ----
(***************************************************************************)
(* Model of muty.file (safe_path_join, unzip and its failure cleanup,      *)
(* delete, write and read of files), of muty.uploadfile (to_path,          *)
(* to_path_multi, unzip), of muty.dict (clear_dict,                        *)
(* dict_of_list_to_chunks), of muty.time (time definitions, the time in a  *)
(* file name), of muty.string (make_shorter) and of muty.log (the default  *)
(* logger), over a small file system.                                      *)
(*                                                                         *)
(* A path string is a sequence of one-character strings, so that the       *)
(* character-wise library functions the code calls (os.path.commonprefix,  *)
(* os.path.basename, os.path.normpath, os.path.join) are computed on       *)
(* characters, as the library computes them.                               *)
(***************************************************************************)
EXTENDS Integers, Sequences, FiniteSets, TLC

VARIABLES
    cwd,        \* the process's current working directory (os.getcwd())
    j_pc,       \* safe_path_join: "call" before the call, "done" or "raised"
                \* after it, "again" after a second call on the result, "idle"
    j_root,     \* safe_path_join: argument root
    j_segs,     \* safe_path_join: argument *segments
    j_allow,    \* safe_path_join: argument allow_relative
    j_result,   \* safe_path_join: the returned path
    fs,         \* the file system: [dirs: set of paths, files: path -> data]
    fs0,        \* the file system before any unzip call started
    u,          \* per task, the frame of its unzip call (locals and position)
    upload,     \* the frame of a call into muty.uploadfile
    fo,         \* the frame of a delete, write or read call of muty.file
    dq,         \* the frame of a call into muty.dict
    tc,         \* the frame of a call into muty.time or muty.string
    lg          \* muty.log: the module's global _logger and the calls made

vars == <<cwd, j_pc, j_root, j_segs, j_allow, j_result, fs, fs0, u, upload, fo, dq,
          tc, lg>>

-----------------------------------------------------------------------------
(* Bounds of the model *)

\* longest segment string handed to safe_path_join
MaxSegLen == 2
\* most segments handed to safe_path_join
MaxSegs == 2
\* most members of an archive
MaxMembers == 2

-----------------------------------------------------------------------------
(* Strings *)

Chars == {"/", ".", "a", "b"}

\* Python's None, where a string is expected
None == <<"None">>

StrUpTo(n) == UNION {[1..k -> Chars] : k \in 0..n}

StartsWith(s, p) == Len(p) <= Len(s) /\ SubSeq(s, 1, Len(p)) = p

EndsWith(s, p) == Len(p) <= Len(s) /\ SubSeq(s, Len(s) - Len(p) + 1, Len(s)) = p

HasSep(s) == \E i \in 1..Len(s) : s[i] = "/"

FirstSep(s) == CHOOSE i \in 1..Len(s) : s[i] = "/" /\ \A k \in 1..(i - 1) : s[k] # "/"

LastSep(s) == CHOOSE i \in 1..Len(s) : s[i] = "/" /\ \A k \in (i + 1)..Len(s) : s[k] # "/"

\* str.split("/")
RECURSIVE Split(_)
Split(s) ==
    IF ~HasSep(s) THEN <<s>>
    ELSE <<SubSeq(s, 1, FirstSep(s) - 1)>> \o Split(SubSeq(s, FirstSep(s) + 1, Len(s)))

\* "/".join(comps)
RECURSIVE JoinSep(_)
JoinSep(comps) ==
    IF comps = <<>> THEN <<>>
    ELSE IF Len(comps) = 1 THEN comps[1]
    ELSE comps[1] \o <<"/">> \o JoinSep(Tail(comps))

-----------------------------------------------------------------------------
(* posixpath, as the code calls it *)

isabs(s) == StartsWith(s, <<"/">>)

\* the loop of posixpath.normpath over the split components
RECURSIVE NormComps(_, _, _)
NormComps(comps, acc, initial_slashes) ==
    IF comps = <<>> THEN acc
    ELSE LET comp == Head(comps)
             rest == Tail(comps)
         IN  IF comp = <<>> \/ comp = <<".">>
             THEN NormComps(rest, acc, initial_slashes)
             ELSE IF \/ comp # <<".", ".">>
                     \/ (initial_slashes = 0 /\ acc = <<>>)
                     \/ (acc # <<>> /\ acc[Len(acc)] = <<".", ".">>)
             THEN NormComps(rest, Append(acc, comp), initial_slashes)
             ELSE IF acc # <<>>
             THEN NormComps(rest, SubSeq(acc, 1, Len(acc) - 1), initial_slashes)
             ELSE NormComps(rest, acc, initial_slashes)

InitialSlashes(s) ==
    IF ~isabs(s) THEN 0
    ELSE IF StartsWith(s, <<"/", "/">>) /\ ~StartsWith(s, <<"/", "/", "/">>) THEN 2
    ELSE 1

normpath(s) ==
    IF s = <<>> THEN <<".">>
    ELSE LET n == InitialSlashes(s)
             p == [i \in 1..n |-> "/"] \o JoinSep(NormComps(Split(s), <<>>, n))
         IN  IF p = <<>> THEN <<".">> ELSE p

\* a plausible slip: an absolute later component does not restart the path
join2_concat(a, b) ==
    IF a = <<>> \/ EndsWith(a, <<"/">>) THEN a \o b
    ELSE a \o <<"/">> \o b

\* posixpath.join(a, b)
join2(a, b) ==
    IF isabs(b) THEN b
    ELSE IF a = <<>> \/ EndsWith(a, <<"/">>) THEN a \o b
    ELSE a \o <<"/">> \o b

\* posixpath.join(a, *p)
RECURSIVE join(_, _)
join(a, p) == IF p = <<>> THEN a ELSE join(join2(a, Head(p)), Tail(p))

\* posixpath.abspath(path) in working directory wd
abspath(wd, s) == normpath(IF isabs(s) THEN s ELSE join2(wd, s))

\* posixpath.basename(p)
basename(s) == IF ~HasSep(s) THEN s ELSE SubSeq(s, LastSep(s) + 1, Len(s))

\* genericpath.commonprefix([a, b]): the longest common leading run of characters
commonprefix(a, b) ==
    LET agree == {i \in 0..Len(a) : i <= Len(b) /\ SubSeq(a, 1, i) = SubSeq(b, 1, i)}
        n     == CHOOSE i \in agree : \A k \in agree : k <= i
    IN  SubSeq(a, 1, n)

-----------------------------------------------------------------------------
(* muty.file.safe_path_join *)

\* a plausible slip: the last segment is joined as given, without taking the
\* basename of the normalized candidate
safe_path_join_rawlast(wd, root, segments, allow_relative) ==
    LET r         == abspath(wd, normpath(root))
        candidate == normpath(abspath(wd, join(r, segments)))
    IN  IF allow_relative
        THEN IF commonprefix(candidate, r) # r THEN r ELSE candidate
        ELSE join2(r, IF segments = <<>> THEN <<>> ELSE segments[Len(segments)])

safe_path_join(wd, root, segments, allow_relative) ==
    LET r         == abspath(wd, normpath(root))
        candidate == normpath(abspath(wd, join(r, segments)))
    IN  IF allow_relative
        THEN IF commonprefix(candidate, r) # r THEN r ELSE candidate
        ELSE join2(r, basename(candidate))

\* p is r itself or lies below r, component by component
Within(p, r) ==
    \/ p = r
    \/ StartsWith(p, IF EndsWith(r, <<"/">>) THEN r ELSE r \o <<"/">>)

\* root or a segment is not a string
NotAllStr(root, segments) ==
    root = None \/ \E i \in 1..Len(segments) : segments[i] = None

\* a plausible slip: a candidate that leaves the root is answered with an
\* exception, not with the root
safe_path_join_raises_strict(wd, root, segments) ==
    \/ NotAllStr(root, segments)
    \/ ~Within(normpath(abspath(wd, join(abspath(wd, normpath(root)), segments))),
               abspath(wd, normpath(root)))

\* the call raises: os.path.normpath and os.path.join raise TypeError for an
\* argument that is not a string; nothing else in the function raises
safe_path_join_raises(wd, root, segments) == NotAllStr(root, segments)

-----------------------------------------------------------------------------
(* The file system *)

Paths(f) == f.dirs \cup DOMAIN f.files

Exists(f, p) == p \in Paths(f)

\* posixpath.dirname(p)
dirname(s) ==
    IF ~HasSep(s) THEN <<>>
    ELSE LET head == SubSeq(s, 1, LastSep(s))
             keep == {i \in 1..Len(head) : head[i] # "/"}
         IN  IF keep = {} THEN head
             ELSE SubSeq(head, 1, CHOOSE i \in keep : \A k \in keep : k <= i)

\* the proper ancestors of an absolute, normalized path
Ancestors(p) ==
    {<<"/">>} \cup {SubSeq(p, 1, i - 1) : i \in {k \in 2..Len(p) : p[k] = "/"}}

WriteFile(f, p, data) ==
    [f EXCEPT !.files = [x \in (DOMAIN f.files) \cup {p} |->
                            IF x = p THEN data ELSE f.files[x]]]

\* the result of a file system call that succeeded
Done(f) == [fs |-> f, err |-> "none"]

\* the result of a file system call that raised err
Failed(f, err) == [fs |-> f, err |-> err]

\* os.mkdir(p)
os_mkdir(f, p) ==
    IF Exists(f, p) THEN Failed(f, "FileExistsError")
    ELSE IF dirname(p) \in DOMAIN f.files THEN Failed(f, "NotADirectoryError")
    ELSE IF dirname(p) \notin f.dirs THEN Failed(f, "FileNotFoundError")
    ELSE Done([f EXCEPT !.dirs = @ \cup {p}])

\* a plausible slip: os.mkdir in place of os.makedirs, so that missing parents
\* are not created
makedirs_leafonly(f, p, exist_ok) ==
    IF p \in f.dirs
    THEN IF exist_ok THEN Done(f) ELSE Failed(f, "FileExistsError")
    ELSE os_mkdir(f, p)

\* os.makedirs(p, exist_ok=exist_ok)
makedirs(f, p, exist_ok) ==
    IF (Ancestors(p) \ {p}) \cap DOMAIN f.files # {} THEN Failed(f, "NotADirectoryError")
    ELSE IF p \in DOMAIN f.files THEN Failed(f, "FileExistsError")
    ELSE IF p \in f.dirs
    THEN IF exist_ok THEN Done(f) ELSE Failed(f, "FileExistsError")
    ELSE Done([f EXCEPT !.dirs = @ \cup Ancestors(p) \cup {p}])

\* a plausible slip: the directory that holds p is removed, not p alone
rmtree_parent(f, p) ==
    [dirs  |-> {x \in f.dirs : ~Within(x, dirname(p))},
     files |-> [x \in {y \in DOMAIN f.files : ~Within(y, dirname(p))} |-> f.files[x]]]

\* shutil.rmtree(p, ignore_errors=True): p and everything below it is removed
rmtree(f, p) ==
    [dirs  |-> {x \in f.dirs : ~Within(x, p)},
     files |-> [x \in {y \in DOMAIN f.files : ~Within(y, p)} |-> f.files[x]]]

\* Path.unlink()
unlink(f, p) ==
    [dirs |-> f.dirs, files |-> [x \in (DOMAIN f.files) \ {p} |-> f.files[x]]]

\* what lies at or below directory d
Subtree(f, d) ==
    [dirs  |-> {x \in f.dirs : Within(x, d)},
     files |-> [x \in {y \in DOMAIN f.files : Within(y, d)} |-> f.files[x]]]

\* pathlib: str(PurePosixPath(s)), which drops empty and "." components
PathStr(s) ==
    LET n     == InitialSlashes(s)
        comps == SelectSeq(Split(s), LAMBDA c : c # <<>> /\ c # <<".">>)
        p     == [i \in 1..n |-> "/"] \o JoinSep(comps)
    IN  IF p = <<>> THEN <<".">> ELSE p

\* abspath_async(path): Path(path).expanduser().absolute().as_posix()
abspath_async(wd, s) ==
    IF isabs(s) THEN PathStr(s) ELSE PathStr(join2(wd, s))

-----------------------------------------------------------------------------
(* zipfile.ZipFile.extractall, as unzip calls it *)

\* ZipFile._extract_member: the member name with empty, "." and ".."
\* components removed
SanitizedArcname(name) ==
    JoinSep(SelectSeq(Split(name),
                      LAMBDA c : c # <<>> /\ c # <<".">> /\ c # <<".", ".">>))

\* a plausible slip: the member name is joined to the destination as it is
MemberTargetRaw(dest, name) == normpath(join2(dest, name))

\* the path a member is written to
MemberTarget(dest, name) == normpath(join2(dest, SanitizedArcname(name)))

\* ZipFile._extract_member: open(targetpath, "wb") and the copy of the data;
\* failHere: the copy fails after the target was opened
WriteMember(f, target, data, failHere) ==
    IF target \in f.dirs THEN Failed(f, "IsADirectoryError")
    ELSE IF dirname(target) \notin f.dirs THEN Failed(f, "NotADirectoryError")
    ELSE IF failHere THEN Failed(WriteFile(f, target, "partial"), "OSError")
    ELSE Done(WriteFile(f, target, data))

\* ZipFile._extract_member: a directory member
MkdirMember(f, target) == IF target \in f.dirs THEN Done(f) ELSE os_mkdir(f, target)

\* ZipFile._extract_member: "Create all upper directories if necessary"
UpperDirs(f, upper) ==
    IF upper # <<>> /\ ~Exists(f, upper) THEN makedirs(f, upper, FALSE) ELSE Done(f)

\* ZipFile._extract_member after the upper directories were handled (up)
PlaceMember(up, target, name, data, failHere) ==
    IF up.err # "none" THEN up
    ELSE IF EndsWith(name, <<"/">>) THEN MkdirMember(up.fs, target)
    ELSE WriteMember(up.fs, target, data, failHere)

\* ZipFile._extract_member with the target path computed
ExtractMemberAt(f, target, name, data, failHere) ==
    PlaceMember(UpperDirs(f, dirname(target)), target, name, data, failHere)

\* ZipFile._extract_member for one member
ExtractMember(f, dest, name, data, failHere) ==
    ExtractMemberAt(f, MemberTarget(dest, name), name, data, failHere)

\* ZipFile.extractall from member i on; failAt is the member whose write
\* fails (0: none); ExtractNext goes on after member i unless it failed
RECURSIVE ExtractFrom(_, _, _, _, _, _)
RECURSIVE ExtractNext(_, _, _, _, _, _)
ExtractNext(r, dest, members, i, data, failAt) ==
    IF r.err # "none" THEN r
    ELSE ExtractFrom(r.fs, dest, members, i + 1, data, failAt)

ExtractFrom(f, dest, members, i, data, failAt) ==
    IF i > Len(members) THEN Done(f)
    ELSE ExtractNext(ExtractMember(f, dest, members[i], data, failAt = i),
                     dest, members, i, data, failAt)

\* with ZipFile(f) as zf: zf.extractall(path=dest)
ZipExtractAll(f, archive, dest, failAt) ==
    IF archive.state = "missing" THEN Failed(f, "FileNotFoundError")
    ELSE IF archive.state = "bad" THEN Failed(f, "BadZipFile")
    ELSE ExtractFrom(f, dest, archive.members, 1, archive.data, failAt)

-----------------------------------------------------------------------------
(* muty.file.delete_file_or_dir_async and muty.file.unzip, step by step.   *)
(* A step runs from one point where the coroutine really suspends to the   *)
(* next; it maps the file system and the call's frame to their new values. *)

Tasks == {1, 2}

IdleFrame ==
    [pc |-> "idle", f |-> [state |-> "missing", members |-> <<>>, data |-> "x"],
     arg |-> None, failAt |-> 0, dest_dir |-> None, created |-> FALSE,
     e |-> "none", exc |-> "none", ret |-> None, isfile |-> FALSE,
     tmp |-> None, mkdtempFails |-> FALSE, overlap |-> FALSE]

Terminal == {"returned", "raised"}

\* the end of the except clause of unzip: raise e
UnzipRaise(fr) == [fr EXCEPT !.pc = "raised", !.exc = fr.e]

\* a plausible slip: the guard "if path is None: return" is missing, and
\* AsyncPath(None) raises TypeError
DeleteEnterNoGuard(fr, path) ==
    IF path = None THEN [fr EXCEPT !.pc = "raised", !.exc = "TypeError"]
    ELSE [fr EXCEPT !.pc = "del_isfile"]

\* delete_file_or_dir_async(path) with ignore_errors=True, up to its first
\* suspension (await aiofiles.ospath.isfile); a None path returns at once
DeleteEnter(fr, path) ==
    IF path = None THEN UnzipRaise(fr)
    ELSE [fr EXCEPT !.pc = "del_isfile"]

\* a plausible slip: the except clause re-raises without any cleanup
UnzipExceptNoCleanup(fr, e) == UnzipRaise([fr EXCEPT !.e = e])

\* except Exception as e: if created: await delete_file_or_dir_async(dest_dir)
UnzipExcept(fr, e) ==
    IF fr.created THEN DeleteEnter([fr EXCEPT !.e = e], fr.dest_dir)
    ELSE UnzipRaise([fr EXCEPT !.e = e])

\* unzip with its arguments bound in frame fr0: created = False, mkdtemp
UnzipEnterFrame(f, fr0) ==
    IF fr0.arg # None THEN [fs |-> f, fr |-> [fr0 EXCEPT !.pc = "abspath"]]
    ELSE IF fr0.mkdtempFails
    THEN [fs |-> f, fr |-> UnzipExcept([fr0 EXCEPT !.created = TRUE], "OSError")]
    ELSE [fs |-> [f EXCEPT !.dirs = @ \cup {fr0.tmp}],
          fr |-> [fr0 EXCEPT !.created = TRUE, !.dest_dir = fr0.tmp, !.pc = "abspath"]]

\* unzip(f, dest_dir) up to "await abspath_async(dest_dir)"; tmp is the
\* name tempfile.mkdtemp() picks, mkdtempFails its failure
UnzipEnter(f, archive, arg, failAt, tmp, mkdtempFails) ==
    UnzipEnterFrame(f, [IdleFrame EXCEPT !.f = archive, !.arg = arg, !.failAt = failAt,
                                         !.dest_dir = arg, !.created = FALSE,
                                         !.tmp = tmp, !.mkdtempFails = mkdtempFails])

\* unzip after the archive was opened and extracted with result x:
\* return dest_dir, or the except clause
UnzipExtracted(fr, x) ==
    IF x.err # "none" THEN [fs |-> x.fs, fr |-> UnzipExcept(fr, x.err)]
    ELSE [fs |-> x.fs, fr |-> [fr EXCEPT !.pc = "returned", !.ret = fr.dest_dir]]

\* unzip: with ZipFile(f) as zf: zf.extractall(path=dest_dir)
UnzipZip(f, fr) == UnzipExtracted(fr, ZipExtractAll(f, fr.f, fr.dest_dir, fr.failAt))

\* unzip: except OSError: os.makedirs(dest_dir, exist_ok=True); created = True
UnzipMakedirsRetry(f, fr, m2) ==
    IF m2.err # "none" THEN [fs |-> f, fr |-> UnzipExcept(fr, m2.err)]
    ELSE UnzipZip(m2.fs, [fr EXCEPT !.created = TRUE])

\* unzip: try: os.makedirs(dest_dir), with result m1
UnzipMakedirs(f, fr, m1) ==
    IF m1.err = "none" THEN UnzipZip(m1.fs, fr)
    ELSE UnzipMakedirsRetry(f, fr, makedirs(f, fr.dest_dir, TRUE))

\* unzip with dest_dir made absolute
UnzipAt(f, fr) == UnzipMakedirs(f, fr, makedirs(f, fr.dest_dir, FALSE))

\* unzip from the return of abspath_async to the return or to the first
\* suspension of the cleanup: makedirs, ZipFile(f).extractall
UnzipExtract(f, wd, fr) ==
    UnzipAt(f, [fr EXCEPT !.dest_dir = abspath_async(wd, fr.dest_dir)])

\* delete_file_or_dir_async: await aiofiles.ospath.isfile(path)
DeleteIsFile(f, fr) ==
    [fs |-> f,
     fr |-> [fr EXCEPT !.pc = "del_second", !.isfile = fr.dest_dir \in DOMAIN f.files]]

\* delete_file_or_dir_async: await p.unlink() when isfile answered yes,
\* else await aiofiles.ospath.isdir(path)
DeleteSecond(f, fr) ==
    IF fr.isfile
    THEN IF fr.dest_dir \in DOMAIN f.files
         THEN [fs |-> unlink(f, fr.dest_dir), fr |-> UnzipRaise(fr)]
         ELSE [fs |-> f, fr |-> [fr EXCEPT !.pc = "raised", !.exc = "FileNotFoundError"]]
    ELSE IF fr.dest_dir \in f.dirs
    THEN [fs |-> f, fr |-> [fr EXCEPT !.pc = "del_rmtree"]]
    ELSE [fs |-> f, fr |-> UnzipRaise(fr)]

\* delete_file_or_dir_async: await aioshutil.rmtree(path, ignore_errors=True),
\* then unzip's raise e
DeleteRmtree(f, fr) == [fs |-> rmtree(f, fr.dest_dir), fr |-> UnzipRaise(fr)]

\* one step of a call that is under way
UnzipStep(f, wd, fr) ==
    CASE fr.pc = "abspath"    -> UnzipExtract(f, wd, fr)
      [] fr.pc = "del_isfile" -> DeleteIsFile(f, fr)
      [] fr.pc = "del_second" -> DeleteSecond(f, fr)
      [] fr.pc = "del_rmtree" -> DeleteRmtree(f, fr)
      [] OTHER                -> [fs |-> f, fr |-> fr]

\* a call run with nothing else running: its steps, one after the other
RECURSIVE RunAlone(_, _, _)
RunAlone(f, wd, fr) ==
    IF fr.pc \in Terminal \cup {"idle"} THEN [fs |-> f, fr |-> fr]
    ELSE LET r == UnzipStep(f, wd, fr) IN RunAlone(r.fs, wd, r.fr)

-----------------------------------------------------------------------------
JoinIdle ==
    /\ j_pc = "idle"
    /\ j_root = <<>>
    /\ j_segs = <<>>
    /\ j_allow = FALSE
    /\ j_result = <<>>

\* no call into muty.uploadfile was made
UploadIdle == upload = [pc |-> "idle"]

\* no delete, write or read call was made
FileOpIdle == fo = [pc |-> "idle"]

\* no call into muty.dict was made
DictIdle == dq = [pc |-> "idle"]

\* no call into muty.time or muty.string was made
TextIdle == tc = [pc |-> "idle"]

\* no call into muty.log was made
LogIdle == lg = [pc |-> "idle"]

-----------------------------------------------------------------------------
(* Inputs of unzip *)

P_root == <<"/">>
P_tmp  == <<"/", "t">>
P_a    == <<"/", "a">>
P_b    == <<"/", "b">>
P_ab   == <<"/", "a", "/", "b">>
P_aba  == <<"/", "a", "/", "b", "/", "a">>
P_ba   == <<"/", "b", "/", "a">>

NoFiles == [x \in {} |-> "pre"]

WorkDirs == { <<"/">>, <<"/", "a">> }

InitFS ==
    { [dirs |-> {P_root, P_tmp}, files |-> NoFiles],
      [dirs |-> {P_root, P_tmp, P_a}, files |-> [x \in {P_ab} |-> "pre"]],
      [dirs |-> {P_root, P_tmp, P_a, P_ab}, files |-> [x \in {P_aba, P_b} |-> "pre"]] }

\* the names tempfile.mkdtemp() can pick
TempNames == { <<"/", "t", "/", "0">>, <<"/", "t", "/", "1">> }

DestArgs == { None, P_a, P_ab, P_ba, <<"b">> }

MemberNames == { <<"a">>, <<".", ".", "/", "b">>, <<"/", "b", "/", "a">>, <<"b", "/">> }

MemberLists == UNION {[1..k -> MemberNames] : k \in 1..MaxMembers}

Archive(state, members) == [state |-> state, members |-> members, data |-> "x"]

Archives ==
    {Archive("missing", <<>>), Archive("bad", <<>>)}
        \cup {Archive("ok", m) : m \in MemberLists}

\* the archives of the concurrent calls
ConcArchives ==
    { Archive("bad", <<>>), Archive("ok", << <<"a">> >>),
      Archive("ok", << <<"b", "/", "a">>, <<".", ".", "/", "b">> >>) }

DataOf(p) == IF p = 1 THEN "x" ELSE "y"

UnzipIdle ==
    /\ fs0 = fs
    /\ u = [p \in Tasks |-> IdleFrame]

-----------------------------------------------------------------------------
(* Actions of unzip *)

\* another task's call is under way (kept in the frame for the claims only)
Overlaps(p) == \E q \in Tasks \ {p} : u[q].pc \notin Terminal \cup {"idle"}

\* the step result r becomes the file system and task p's frame
Becomes(p, r) ==
    /\ fs' = r.fs
    /\ u' = [u EXCEPT ![p] = r.fr]
    /\ UNCHANGED <<cwd, j_pc, j_root, j_segs, j_allow, j_result, fs0, upload, fo, dq, tc, lg>>

\* the same at the start of a call, noting whether another call is under way
BecomesCall(p, r) ==
    /\ fs' = r.fs
    /\ u' = [u EXCEPT ![p] = [r.fr EXCEPT !.overlap = Overlaps(p)]]
    /\ UNCHANGED <<cwd, j_pc, j_root, j_segs, j_allow, j_result, fs0, upload, fo, dq, tc, lg>>

\* task p calls unzip(f, dest_dir); k is the member whose data cannot be
\* written (0: none; directory members carry no data)
UnzipCall(p, archives) ==
    /\ u[p].pc = "idle"
    /\ \E a \in archives, arg \in DestArgs, tmp \in TempNames \cup {None}, mf \in BOOLEAN :
         \E k \in 0..Len(a.members) :
            /\ k > 0 => ~EndsWith(a.members[k], <<"/">>)
            /\ IF arg = None THEN tmp # None /\ ~Exists(fs, tmp)
                             ELSE tmp = None /\ ~mf
            /\ BecomesCall(p, UnzipEnter(fs, [a EXCEPT !.data = DataOf(p)], arg, k, tmp, mf))

\* task p resumes after abspath_async: makedirs and extraction
UnzipResume(p) ==
    /\ u[p].pc = "abspath"
    /\ Becomes(p, UnzipExtract(fs, cwd, u[p]))

\* task p's cleanup: the answer of isfile arrives
CleanupIsFile(p) ==
    /\ u[p].pc = "del_isfile"
    /\ Becomes(p, DeleteIsFile(fs, u[p]))

\* task p's cleanup: unlink, or the answer of isdir arrives
CleanupSecond(p) ==
    /\ u[p].pc = "del_second"
    /\ Becomes(p, DeleteSecond(fs, u[p]))

\* task p's cleanup: rmtree, then the exception reaches the caller
CleanupRmtree(p) ==
    /\ u[p].pc = "del_rmtree"
    /\ Becomes(p, DeleteRmtree(fs, u[p]))

InitUnzip ==
    /\ cwd \in WorkDirs
    /\ JoinIdle
    /\ fs \in InitFS
    /\ UnzipIdle
    /\ TextIdle
    /\ LogIdle
    /\ UploadIdle
    /\ FileOpIdle
    /\ DictIdle

\* one unzip call, nothing else running
Next ==
    \/ UnzipCall(1, Archives)
    \/ UnzipResume(1)
    \/ CleanupIsFile(1)
    \/ CleanupSecond(1)
    \/ CleanupRmtree(1)

Spec == InitUnzip /\ [][Next]_vars

\* two unzip calls, interleaved where they suspend
NextConc ==
    \E p \in Tasks :
        \/ UnzipCall(p, ConcArchives)
        \/ UnzipResume(p)
        \/ CleanupIsFile(p)
        \/ CleanupSecond(p)
        \/ CleanupRmtree(p)

SpecConc == InitUnzip /\ [][NextConc]_vars

-----------------------------------------------------------------------------
(* Inputs of safe_path_join *)

Roots ==
    { <<"/">>, <<"/", "a">>, <<"/", "a", "/", "b">>, <<"b">>, <<"/", "a", "/">>,
      <<"/", "a", "/", ".", ".", "/", "b">>, <<>> }

SegLists == UNION {[1..k -> StrUpTo(MaxSegLen)] : k \in 0..MaxSegs}

InitJoin ==
    /\ cwd \in WorkDirs
    /\ j_pc = "call"
    /\ j_root \in Roots
    /\ j_segs \in SegLists
    /\ j_allow \in BOOLEAN
    /\ j_result = <<>>
    /\ fs = [dirs |-> {P_root}, files |-> NoFiles]
    /\ UnzipIdle
    /\ TextIdle
    /\ LogIdle
    /\ UploadIdle
    /\ FileOpIdle
    /\ DictIdle

\* safe_path_join(root, *segments, allow_relative=allow) returns or raises
SafePathJoin ==
    /\ j_pc = "call"
    /\ IF safe_path_join_raises(cwd, j_root, j_segs)
       THEN j_pc' = "raised" /\ j_result' = j_result
       ELSE j_pc' = "done" /\ j_result' = safe_path_join(cwd, j_root, j_segs, j_allow)
    /\ UNCHANGED <<cwd, j_root, j_segs, j_allow, fs, fs0, u, upload, fo, dq, tc, lg>>

NextJoin == SafePathJoin

SpecJoin == InitJoin /\ [][NextJoin]_vars

\* roots of the calls whose result is joined again; None is not a string
AgainRoots == { <<"/">>, <<"/", "a">>, <<"/", "a", "/", "b">>, <<"b">>, None }

\* segment lists that hold a value that is not a string
NonStrSegLists == { <<None>>, << <<"a">>, None >>, << None, <<".", ".">> >> }

InitJoinAgain ==
    /\ cwd \in WorkDirs
    /\ j_pc = "call"
    /\ j_root \in AgainRoots
    /\ j_segs \in SegLists \cup NonStrSegLists
    /\ j_allow \in BOOLEAN
    /\ j_result = <<>>
    /\ fs = [dirs |-> {P_root}, files |-> NoFiles]
    /\ UnzipIdle
    /\ TextIdle
    /\ LogIdle
    /\ UploadIdle
    /\ FileOpIdle
    /\ DictIdle

\* the returned path p is handed to a second call:
\* safe_path_join(root, p, allow_relative=allow)
SafePathJoinAgain ==
    /\ j_pc = "done"
    /\ j_segs' = <<j_result>>
    /\ j_result' = safe_path_join(cwd, j_root, <<j_result>>, j_allow)
    /\ j_pc' = "again"
    /\ UNCHANGED <<cwd, j_root, j_allow, fs, fs0, u, upload, fo, dq, tc, lg>>

NextJoinAgain == SafePathJoin \/ SafePathJoinAgain

SpecJoinAgain == InitJoinAgain /\ [][NextJoinAgain]_vars

\* the root as safe_path_join treats it: absolute and normalized
NormRoot == abspath(cwd, normpath(j_root))

-----------------------------------------------------------------------------
(* muty.file: delete_file_or_dir, write_file, read_file and their async     *)
(* variants, each call run from its start to its return                     *)

\* the file the operating system finds for path string p in working
\* directory wd (the model has no symbolic links)
OsPath(wd, p) == abspath(wd, p)

\* os.remove(path)
os_remove(f, p) ==
    [dirs |-> f.dirs, files |-> [x \in (DOMAIN f.files) \ {p} |-> f.files[x]]]

\* a plausible slip: os.rmdir in place of shutil.rmtree, which removes a
\* directory only when it is empty
delete_file_or_dir_rmdir(f, wd, path, ignore_errors) ==
    IF path = None THEN Done(f)
    ELSE IF ~ignore_errors /\ ~Exists(f, OsPath(wd, path))
    THEN Failed(f, "FileNotFoundError")
    ELSE IF OsPath(wd, path) \in DOMAIN f.files THEN Done(os_remove(f, OsPath(wd, path)))
    ELSE IF OsPath(wd, path) \in f.dirs
    THEN IF \E x \in Paths(f) : x # OsPath(wd, path) /\ Within(x, OsPath(wd, path))
         THEN (IF ignore_errors THEN Done(f) ELSE Failed(f, "OSError"))
         ELSE Done(rmtree(f, OsPath(wd, path)))
    ELSE Done(f)

\* delete_file_or_dir(path, ignore_errors)
delete_file_or_dir(f, wd, path, ignore_errors) ==
    IF path = None THEN Done(f)
    ELSE IF ~ignore_errors /\ ~Exists(f, OsPath(wd, path))
    THEN Failed(f, "FileNotFoundError")
    ELSE IF OsPath(wd, path) \in DOMAIN f.files THEN Done(os_remove(f, OsPath(wd, path)))
    ELSE IF OsPath(wd, path) \in f.dirs THEN Done(rmtree(f, OsPath(wd, path)))
    ELSE Done(f)

\* delete_file_or_dir_async(path, ignore_errors), nothing else running
delete_file_or_dir_async(f, wd, path, ignore_errors) ==
    IF path = None THEN Done(f)
    ELSE IF ~ignore_errors /\ ~Exists(f, OsPath(wd, path))
    THEN Failed(f, "FileNotFoundError")
    ELSE IF OsPath(wd, path) \in DOMAIN f.files THEN Done(unlink(f, OsPath(wd, path)))
    ELSE IF OsPath(wd, path) \in f.dirs THEN Done(rmtree(f, OsPath(wd, path)))
    ELSE Done(f)

\* a plausible slip: the file is always opened with "wb"
OpenModeTruncating(append) == "wb"

\* "ab" if append else "wb"
OpenMode(append) == IF append THEN "ab" ELSE "wb"

\* open(p, mode) for writing: "wb" creates the file or empties it, "ab"
\* creates it when it is missing and keeps its content otherwise
OpenForWrite(f, p, mode) ==
    IF p \in f.dirs THEN Failed(f, "IsADirectoryError")
    ELSE IF dirname(p) \in DOMAIN f.files THEN Failed(f, "NotADirectoryError")
    ELSE IF dirname(p) \notin f.dirs THEN Failed(f, "FileNotFoundError")
    ELSE IF mode = "wb" \/ p \notin DOMAIN f.files THEN Done(WriteFile(f, p, <<>>))
    ELSE Done(f)

\* f.write(content) on the file opened with result o: the bytes go to the
\* end of what the file holds
FileWrite(o, p, content) ==
    IF o.err # "none" THEN o
    ELSE Done(WriteFile(o.fs, p, o.fs.files[p] \o content))

\* write_file(path, content, append)
write_file(f, wd, path, content, append) ==
    FileWrite(OpenForWrite(f, OsPath(wd, path), OpenMode(append)), OsPath(wd, path), content)

\* write_file_async(path, content, append), nothing else running
write_file_async(f, wd, path, content, append) ==
    FileWrite(OpenForWrite(f, OsPath(wd, path), OpenMode(append)), OsPath(wd, path), content)

\* open(p, "rb") and f.read(): the bytes of the file, or the failure of open
ReadAll(f, p) ==
    IF p \in DOMAIN f.files THEN [err |-> "none", b |-> f.files[p]]
    ELSE IF p \in f.dirs THEN [err |-> "IsADirectoryError", b |-> <<>>]
    ELSE [err |-> "FileNotFoundError", b |-> <<>>]

\* read_file(path)
read_file(f, wd, path) == ReadAll(f, OsPath(wd, path))

\* read_file_async(path), nothing else running
read_file_async(f, wd, path) == ReadAll(f, OsPath(wd, path))

\* most write calls in a run
MaxWrites == 2
\* longest content handed to one write call
MaxContentLen == 1

Bytes == {0, 1}

Contents == UNION {[1..k -> Bytes] : k \in 0..MaxContentLen}

\* the file systems the calls start from; the files hold bytes
FileFS ==
    { [dirs |-> {P_root, P_tmp}, files |-> [x \in {} |-> <<>>]],
      [dirs |-> {P_root, P_tmp, P_a}, files |-> [x \in {P_ab} |-> <<1>>]],
      [dirs |-> {P_root, P_tmp, P_a, P_ab},
       files |-> [x \in {P_aba, P_b} |-> IF x = P_b THEN <<>> ELSE <<0, 1>>]] }

\* the paths handed to the calls
FilePaths == { P_a, P_b, P_ab, P_aba, P_ba, <<"b">> }

Variants == {"sync", "async"}

FileFrame0 ==
    [pc |-> "start", op |-> "none", variant |-> "sync", path |-> None,
     content |-> <<>>, append |-> FALSE, ignore_errors |-> TRUE, prev |-> <<>>,
     err |-> "none", b |-> <<>>, writes |-> 0]

InitFile ==
    /\ cwd \in WorkDirs
    /\ JoinIdle
    /\ fs \in FileFS
    /\ UnzipIdle
    /\ TextIdle
    /\ LogIdle
    /\ UploadIdle
    /\ DictIdle
    /\ fo = FileFrame0

\* the outcome r of a call becomes the file system; fr is the frame of the call
FileCallEnds(r, fr) ==
    /\ fs' = r.fs
    /\ fs0' = fs
    /\ fo' = [fr EXCEPT !.err = r.err]
    /\ UNCHANGED <<cwd, j_pc, j_root, j_segs, j_allow, j_result, u, upload, dq, tc, lg>>

\* what the file at p holds before a write (nothing when there is no file)
ContentAt(f, p) == IF p \in DOMAIN f.files THEN f.files[p] ELSE <<>>

\* delete_file_or_dir(path, ignore_errors) is called and ends
DeleteFileOrDir ==
    /\ fo.pc \in {"start", "written", "read"}
    /\ \E path \in FilePaths \cup {None}, ie \in BOOLEAN :
         FileCallEnds(delete_file_or_dir(fs, cwd, path, ie),
                      [fo EXCEPT !.pc = "deleted", !.op = "delete", !.variant = "sync",
                                 !.path = path, !.ignore_errors = ie])

\* await delete_file_or_dir_async(path, ignore_errors) is called and ends
DeleteFileOrDirAsync ==
    /\ fo.pc \in {"start", "written", "read"}
    /\ \E path \in FilePaths \cup {None}, ie \in BOOLEAN :
         FileCallEnds(delete_file_or_dir_async(fs, cwd, path, ie),
                      [fo EXCEPT !.pc = "deleted", !.op = "delete", !.variant = "async",
                                 !.path = path, !.ignore_errors = ie])

\* the frame of a write call
WriteFrame(variant, path, content, append) ==
    [fo EXCEPT !.pc = "written", !.op = "write", !.variant = variant, !.path = path,
               !.content = content, !.append = append,
               !.prev = ContentAt(fs, OsPath(cwd, path)), !.writes = fo.writes + 1]

\* write_file(path, content, append) is called and ends
WriteFileCall ==
    /\ fo.pc \in {"start", "written", "read"}
    /\ fo.writes < MaxWrites
    /\ \E path \in FilePaths, c \in Contents, append \in BOOLEAN :
         FileCallEnds(write_file(fs, cwd, path, c, append),
                      WriteFrame("sync", path, c, append))

\* await write_file_async(path, content, append) is called and ends
WriteFileAsyncCall ==
    /\ fo.pc \in {"start", "written", "read"}
    /\ fo.writes < MaxWrites
    /\ \E path \in FilePaths, c \in Contents, append \in BOOLEAN :
         FileCallEnds(write_file_async(fs, cwd, path, c, append),
                      WriteFrame("async", path, c, append))

\* the file just written is read back; rd is what the read gave
ReadEnds(rd, variant) ==
    /\ fo' = [fo EXCEPT !.pc = "read", !.op = "read", !.variant = variant,
                        !.b = rd.b, !.err = rd.err]
    /\ fs0' = fs
    /\ UNCHANGED <<cwd, j_pc, j_root, j_segs, j_allow, j_result, fs, u, upload, dq, tc, lg>>

\* read_file(path) right after a write to path that returned
ReadFileCall ==
    /\ fo.pc = "written"
    /\ fo.err = "none"
    /\ ReadEnds(read_file(fs, cwd, fo.path), "sync")

\* await read_file_async(path) right after a write to path that returned
ReadFileAsyncCall ==
    /\ fo.pc = "written"
    /\ fo.err = "none"
    /\ ReadEnds(read_file_async(fs, cwd, fo.path), "async")

NextFile ==
    \/ DeleteFileOrDir
    \/ DeleteFileOrDirAsync
    \/ WriteFileCall
    \/ WriteFileAsyncCall
    \/ ReadFileCall
    \/ ReadFileAsyncCall

SpecFile == InitFile /\ [][NextFile]_vars

-----------------------------------------------------------------------------
(* muty.uploadfile: to_path, to_path_multi and unzip, each call run from    *)
(* its start to its return with nothing else running                        *)

\* tempfile.gettempdir()
gettempdir == P_tmp

\* the outcome of a call: the file system, the exception ("none": it
\* returned) and the returned value
Outcome(f, err, ret) == [fs |-> f, err |-> err, ret |-> ret]

\* to_path: raise e, after the last delete of the cleanup (result d)
ToPathRaise(d, e) == Outcome(d.fs, e, None)

\* to_path: if created: await delete_file_or_dir_async(dest_dir); d1 is the
\* result of deleting the file
ToPathCleanupDir(d1, wd, dest_dir, created, e) ==
    IF created
    THEN ToPathRaise(delete_file_or_dir_async(d1.fs, wd, dest_dir, TRUE), e)
    ELSE ToPathRaise(d1, e)

\* to_path: except Exception as e: await delete_file_or_dir_async(path) ...
ToPathExcept(f, wd, path, dest_dir, created, e) ==
    ToPathCleanupDir(delete_file_or_dir_async(f, wd, path, TRUE), wd, dest_dir, created, e)

\* to_path: while content := await f.read(chunk_size): await
\* out_file.write(content), on the file opened with result o; an upload
\* that fails raises from f.read after a part was written
Download(o, p, upl) ==
    IF o.err # "none" THEN o
    ELSE IF upl.fails THEN Failed(WriteFile(o.fs, p, "partial"), "ReadError")
    ELSE Done(WriteFile(o.fs, p, upl.content))

\* to_path after the download with result w: return path, or the cleanup
ToPathWritten(w, wd, path, dest_dir, created) ==
    IF w.err = "none" THEN Outcome(w.fs, "none", path)
    ELSE ToPathExcept(w.fs, wd, path, dest_dir, created, w.err)

\* to_path: async with aiofiles.open(path, "wb") as out_file: ...
ToPathWrite(f, wd, upl, dest_dir, created, path) ==
    ToPathWritten(Download(OpenForWrite(f, OsPath(wd, path), "wb"), OsPath(wd, path), upl),
                  wd, path, dest_dir, created)

\* to_path: the name of the file, generate_unique() or f.filename
ToPathName(upl, use_random_filename, unique) ==
    IF use_random_filename THEN unique ELSE upl.filename

\* to_path with the destination directory made
ToPathIn(f, wd, upl, dest_dir, created, use_random_filename, unique) ==
    ToPathWrite(f, wd, upl, dest_dir, created,
                join2(dest_dir, ToPathName(upl, use_random_filename, unique)))

\* to_path: except OSError: await makedirs(dest_dir, exist_ok=True);
\* created = True; m2 is the result of that makedirs
ToPathRetry(m2, wd, upl, dest_dir, use_random_filename, unique) ==
    IF m2.err # "none" THEN Outcome(m2.fs, m2.err, None)
    ELSE ToPathIn(m2.fs, wd, upl, dest_dir, TRUE, use_random_filename, unique)

\* to_path: try: await aiofiles.os.makedirs(dest_dir), with result m1
ToPathMade(f, m1, wd, upl, dest_dir, use_random_filename, unique) ==
    IF m1.err = "none"
    THEN ToPathIn(m1.fs, wd, upl, dest_dir, FALSE, use_random_filename, unique)
    ELSE ToPathRetry(makedirs(f, OsPath(wd, dest_dir), TRUE),
                     wd, upl, dest_dir, use_random_filename, unique)

\* to_path with dest_dir settled: created = False and the makedirs
ToPathAt(f, wd, upl, dest_dir, use_random_filename, unique) ==
    ToPathMade(f, makedirs(f, OsPath(wd, dest_dir), FALSE),
               wd, upl, dest_dir, use_random_filename, unique)

\* the destination directory to_path and to_path_multi use: dest_dir, or
\* os.path.join(tempfile.gettempdir(), generate_unique()) for None
DestDirOf(dest_dir, unique_dir) ==
    IF dest_dir = None THEN join2(gettempdir, unique_dir) ELSE dest_dir

\* to_path(f, dest_dir, use_random_filename); unique_dir and unique are what
\* generate_unique() returns for the directory and for the file
to_path(f, wd, upl, dest_dir, use_random_filename, unique_dir, unique) ==
    ToPathAt(f, wd, upl, DestDirOf(dest_dir, unique_dir), use_random_filename, unique)

\* to_path_multi: except Exception as e: if created: delete dest_dir; raise e
ToPathMultiExcept(f, wd, dest_dir, created, e) ==
    IF created THEN ToPathRaise(delete_file_or_dir_async(f, wd, dest_dir, TRUE), e)
    ELSE Outcome(f, e, None)

\* to_path_multi: for ff in f: p = await to_path(ff, dest_dir, ...);
\* l.append(p), from upload i on; ToPathMultiNext goes on after upload i
\* with the result r of its to_path
RECURSIVE ToPathMultiFrom(_, _, _, _, _, _, _, _, _)
RECURSIVE ToPathMultiNext(_, _, _, _, _, _, _, _, _)
ToPathMultiNext(r, wd, upls, i, dest_dir, created, use_random_filename, uniques, l) ==
    IF r.err # "none" THEN ToPathMultiExcept(r.fs, wd, dest_dir, created, r.err)
    ELSE ToPathMultiFrom(r.fs, wd, upls, i + 1, dest_dir, created, use_random_filename,
                         uniques, Append(l, r.ret))

ToPathMultiFrom(f, wd, upls, i, dest_dir, created, use_random_filename, uniques, l) ==
    IF i > Len(upls) THEN Outcome(f, "none", <<dest_dir, l>>)
    ELSE ToPathMultiNext(to_path(f, wd, upls[i], dest_dir, use_random_filename,
                                 None, uniques[i]),
                         wd, upls, i, dest_dir, created, use_random_filename, uniques, l)

\* to_path_multi(f, dest_dir, use_random_filename)
to_path_multi(f, wd, upls, dest_dir, use_random_filename, unique_dir, uniques) ==
    ToPathMultiFrom(f, wd, upls, 1, DestDirOf(dest_dir, unique_dir), dest_dir = None,
                    use_random_filename, uniques, <<>>)

\* ZipFile(path): what the bytes of an uploaded file are as an archive
AsArchive(data) ==
    IF data = "zip1" THEN Archive("ok", << <<"a">> >>)
    ELSE IF data = "zip2" THEN Archive("ok", << <<"b", "/">>, <<".", ".", "/", "a">> >>)
    ELSE Archive("bad", <<>>)

\* the archive muty.file.unzip finds at path
ArchiveAt(f, p) ==
    IF p \in DOMAIN f.files THEN AsArchive(f.files[p]) ELSE Archive("missing", <<>>)

\* a plausible slip: the downloaded file is not deleted at the end
UploadUnzipFinallyKeeps(x, wd, dwnl_path, ret) == Outcome(x.fs, x.err, ret)

\* uploadfile.unzip: finally: await delete_file_or_dir_async(dwnl_path),
\* then the return of dd or the exception of x goes on to the caller
UploadUnzipFinally(x, wd, dwnl_path, ret) ==
    Outcome(delete_file_or_dir_async(x.fs, wd, dwnl_path, TRUE).fs, x.err, ret)

\* uploadfile.unzip: except Exception as e: if dest_dir is None: await
\* delete_file_or_dir_async(dd); raise e, where dd is still None
UploadUnzipExcept(f, wd, dest_dir, e) ==
    IF dest_dir = None THEN Failed(delete_file_or_dir_async(f, wd, None, TRUE).fs, e)
    ELSE Failed(f, e)

\* uploadfile.unzip after muty.file.unzip ended in file system f with frame fr
UploadUnzipDone(f, fr, wd, dest_dir, dwnl_path) ==
    IF fr.pc = "returned" THEN UploadUnzipFinally(Done(f), wd, dwnl_path, fr.ret)
    ELSE UploadUnzipFinally(UploadUnzipExcept(f, wd, dest_dir, fr.exc), wd, dwnl_path, None)

\* uploadfile.unzip: dd = await muty.file.unzip(dwnl_path, dest_dir=dest_dir),
\* started with result s of its first step
UploadUnzipRun(s, wd, dest_dir, dwnl_path) ==
    UploadUnzipDone(RunAlone(s.fs, wd, s.fr).fs, RunAlone(s.fs, wd, s.fr).fr,
                    wd, dest_dir, dwnl_path)

\* uploadfile.unzip after the download with result r1
UploadUnzipDownloaded(r1, wd, dest_dir, tmp, mkdtempFails, failAt) ==
    IF r1.err # "none"
    THEN UploadUnzipFinally(UploadUnzipExcept(r1.fs, wd, dest_dir, r1.err), wd, None, None)
    ELSE UploadUnzipRun(UnzipEnter(r1.fs, ArchiveAt(r1.fs, OsPath(wd, r1.ret)), dest_dir,
                                   failAt, tmp, mkdtempFails),
                        wd, dest_dir, r1.ret)

\* uploadfile.unzip(f, dest_dir): dwnl_path = await to_path(f,
\* use_random_filename=True), then muty.file.unzip
upload_unzip(f, wd, upl, dest_dir, unique_dir, unique, tmp, mkdtempFails, failAt) ==
    UploadUnzipDownloaded(to_path(f, wd, upl, None, TRUE, unique_dir, unique),
                          wd, dest_dir, tmp, mkdtempFails, failAt)

\* most uploads handed to one to_path_multi call
MaxUploads == 2

\* the i-th value generate_unique() returns in a call: no two are alike and
\* none names anything that exists
UniqueName(i) == [k \in 1..i |-> "u"]

\* the values generate_unique() returns for the files of a call
UniqueFileNames == [i \in 1..(MaxUploads + 1) |-> UniqueName(i + 1)]

\* the uploads: FastAPI UploadFile objects with a file name and bytes; the
\* read of a failing one raises
Uploads == [filename : { <<"a">>, <<"b">> }, content : {"zip1", "zip2", "junk"},
            fails : BOOLEAN]

UploadLists == UNION {[1..k -> Uploads] : k \in 1..MaxUploads}

\* the values of the argument dest_dir
UploadDests == { None, P_a, P_ab, P_b, <<"b">> }

\* the frame of a call: its arguments, the directory it works in and the
\* paths of the files it writes
UploadFrame(op, upls, arg, use_random_filename) ==
    [pc |-> "called", op |-> op, upls |-> upls, arg |-> arg,
     use_random_filename |-> use_random_filename,
     dest |-> OsPath(cwd, DestDirOf(arg, UniqueName(1))),
     paths |-> [i \in 1..Len(upls) |->
                  OsPath(cwd, join2(DestDirOf(arg, UniqueName(1)),
                                    ToPathName(upls[i], use_random_filename,
                                               UniqueFileNames[i])))],
     exc |-> "none", ret |-> None]

\* the call with frame fr ends with outcome r
UploadEnds(r, fr) ==
    /\ fs' = r.fs
    /\ upload' = [fr EXCEPT !.pc = IF r.err = "none" THEN "returned" ELSE "raised",
                            !.exc = r.err, !.ret = r.ret]
    /\ UNCHANGED <<cwd, j_pc, j_root, j_segs, j_allow, j_result, fs0, u, fo, dq, tc, lg>>

\* await to_path(f, dest_dir, use_random_filename) is called and ends
ToPathCall ==
    /\ upload.pc = "idle"
    /\ \E upl \in Uploads, arg \in UploadDests, rnd \in BOOLEAN :
         UploadEnds(to_path(fs, cwd, upl, arg, rnd, UniqueName(1), UniqueFileNames[1]),
                    UploadFrame("to_path", <<upl>>, arg, rnd))

\* await to_path_multi(f, dest_dir, use_random_filename) is called and ends
ToPathMultiCall ==
    /\ upload.pc = "idle"
    /\ \E upls \in UploadLists, arg \in UploadDests, rnd \in BOOLEAN :
         UploadEnds(to_path_multi(fs, cwd, upls, arg, rnd, UniqueName(1), UniqueFileNames),
                    UploadFrame("to_path_multi", upls, arg, rnd))

\* await uploadfile.unzip(f, dest_dir) is called and ends; tmp is the name
\* tempfile.mkdtemp() picks in muty.file.unzip, mf its failure, k the member
\* of the archive whose data cannot be written (0: none)
UploadUnzipCall ==
    /\ upload.pc = "idle"
    /\ \E upl \in Uploads, arg \in UploadDests, tmp \in TempNames \cup {None}, mf \in BOOLEAN :
         \E k \in 0..Len(AsArchive(upl.content).members) :
            /\ k > 0 => /\ ~upl.fails
                        /\ ~EndsWith(AsArchive(upl.content).members[k], <<"/">>)
            /\ IF arg = None /\ ~upl.fails THEN tmp # None /\ ~Exists(fs, tmp)
                                           ELSE tmp = None /\ ~mf
            /\ UploadEnds(upload_unzip(fs, cwd, upl, arg, UniqueName(1), UniqueFileNames[1],
                                       tmp, mf, k),
                          [UploadFrame("unzip", <<upl>>, None, TRUE) EXCEPT !.arg = arg])

InitUpload ==
    /\ cwd \in WorkDirs
    /\ JoinIdle
    /\ fs \in InitFS
    /\ UnzipIdle
    /\ TextIdle
    /\ LogIdle
    /\ UploadIdle
    /\ FileOpIdle
    /\ DictIdle

NextUpload ==
    \/ ToPathCall
    \/ ToPathMultiCall
    \/ UploadUnzipCall

SpecUpload == InitUpload /\ [][NextUpload]_vars

-----------------------------------------------------------------------------
(* muty.dict.clear_dict. A Python value is a record tagged with its type.   *)

VNone == [t |-> "none"]

VInt(n) == [t |-> "int", n |-> n]

VStr(s) == [t |-> "str", s |-> s]

VBool(b) == [t |-> "bool", b |-> b]

VList(items) == [t |-> "list", items |-> items]

\* a dictionary: m maps its keys to their values
VDict(m) == [t |-> "dict", m |-> m]

\* str.strip() on the strings of the model: "", " " and "x"
Strip(s) == IF s = " " THEN "" ELSE s

\* the keep_* flags, all False by default
DefaultKeep ==
    [numbers |-> FALSE, bool |-> FALSE, strings |-> FALSE, lists |-> FALSE,
     dicts |-> FALSE, none |-> FALSE]

\* clear_dict: whether the item with value v gets into cleared_dict
KeepsItem(v, keep) ==
    CASE v.t = "none" -> keep.none
      [] v.t = "dict" -> TRUE
      [] v.t = "list" -> keep.lists \/ Len(v.items) > 0
      [] v.t = "str"  -> Strip(v.s) # "" \/ keep.strings
      [] v.t = "bool" -> v.b \/ keep.bool
      [] v.t = "int"  -> v.n > 0 \/ keep.numbers

RECURSIVE clear_dict(_, _)

\* clear_dict: the value stored for an item that is kept: clear_dict(v) for
\* a dictionary, [clear_dict(item) for item in v] for a list, else v
ClearedValue(v) ==
    IF v.t = "dict" THEN clear_dict(v, DefaultKeep)
    ELSE IF v.t = "list"
    THEN VList([i \in 1..Len(v.items) |-> clear_dict(v.items[i], DefaultKeep)])
    ELSE v

\* clear_dict(d, keep_numbers, ..., keep_none); a value without items() is
\* returned as it is
clear_dict(d, keep) ==
    IF d.t # "dict" THEN d
    ELSE VDict([k \in {x \in DOMAIN d.m : KeepsItem(d.m[x], keep)} |-> ClearedValue(d.m[k])])

\* most items of a list in a dictionary handed to clear_dict
MaxItems == 2

Scalars == {VNone, VInt(0), VInt(1), VStr(" "), VStr("x"), VBool(FALSE), VBool(TRUE)}

NoItems == [k \in {} |-> VNone]

\* dictionaries nested in the dictionary handed to clear_dict
InnerDicts == {VDict(NoItems)} \cup {VDict([k \in {"k"} |-> v]) : v \in Scalars}

\* the items of the lists in the dictionary
ListItems == {VNone, VInt(1), VDict([k \in {"k"} |-> VNone]), VList(<<VNone>>)}

Lists == {VList(l) : l \in UNION {[1..n -> ListItems] : n \in 0..MaxItems}}

DictValues == Scalars \cup InnerDicts \cup Lists

\* the dictionaries handed to clear_dict
Dicts == {VDict(m) : m \in UNION {[ks -> DictValues] : ks \in SUBSET {"a", "b"}}}

\* the flags clear_dict is called with
Keeps ==
    {DefaultKeep, [DefaultKeep EXCEPT !.none = TRUE], [DefaultKeep EXCEPT !.lists = TRUE]}

-----------------------------------------------------------------------------
(* muty.dict.dict_of_list_to_chunks and muty.list.split_list_in_n_lists.    *)
(* The dictionary handed in is the sequence of its items, <<key, list>>, in *)
(* the order d.items() gives them.  A list object in use during the call is *)
(* a record [v, src]: v its elements, src the index of the item of d whose  *)
(* list it is (the same object, not a copy), or 0 for a list made during    *)
(* the call.  The call's state is [results, d], so that a change made to a  *)
(* list of d through another reference shows in d.                          *)

\* the number of slices with the last, shorter one left out
NSlicesFloor(len, n) == len \div n

\* the number of slices l[i : i + n] for i in range(0, len(l), n)
NSlices(len, n) == (len + n - 1) \div n

Min(a, b) == IF a <= b THEN a ELSE b

\* split_list_in_n_lists(l, n): lists of at most n elements each; the list
\* object l itself when it is shorter than n (or n is 0), new lists otherwise
split_list_in_n_lists(l, src, n) ==
    IF Len(l) < n \/ n = 0 THEN << [v |-> l, src |-> src] >>
    ELSE [i \in 1..NSlices(Len(l), n) |->
            [v |-> SubSeq(l, (i - 1) * n + 1, Min(i * n, Len(l))), src |-> 0]]

\* dictionary m with key k set to v
Put(m, k, v) == [x \in (DOMAIN m) \cup {k} |-> IF x = k THEN v ELSE m[x]]

\* d after the list object obj was extended by more
ExtendedIn(d, obj, more) ==
    IF obj.src = 0 THEN d
    ELSE [i \in 1..Len(d) |-> IF i = obj.src THEN <<d[i][1], d[i][2] \o more>> ELSE d[i]]

\* (results[j])[k].extend(more)
Extend(x, j, k, more) ==
    [results |-> [i \in 1..Len(x.results) |->
                    IF i = j
                    THEN Put(x.results[j], k,
                             [v |-> x.results[j][k].v \o more, src |-> x.results[j][k].src])
                    ELSE x.results[i]],
     d |-> ExtendedIn(x.d, x.results[j][k], more)]

\* (results[j])[k] = chunk
Store(x, j, k, chunk) ==
    [results |-> [i \in 1..Len(x.results) |->
                    IF i = j THEN Put(x.results[j], k, chunk) ELSE x.results[i]],
     d |-> x.d]

\* dict_of_list_to_chunks: the body of the loop over list_chunks, for the
\* chunk that goes to results[j]
AddChunk(x, j, k, chunk) ==
    IF Len(chunk.v) > 0
    THEN IF k \notin DOMAIN x.results[j]
         THEN Store(x, j, k, chunk)
         ELSE Extend(x, j, k, chunk.v)
    ELSE x

\* dict_of_list_to_chunks: for i in range(len(list_chunks)), from chunk i on
\* (i counts from 1, so the chunk goes to results[(i - 1) % n_chunks])
RECURSIVE AddChunks(_, _, _, _, _)
AddChunks(x, k, list_chunks, i, n_chunks) ==
    IF i > Len(list_chunks) THEN x
    ELSE AddChunks(AddChunk(x, ((i - 1) % n_chunks) + 1, k, list_chunks[i]),
                   k, list_chunks, i + 1, n_chunks)

\* dict_of_list_to_chunks: for k, v in d.items(), from item i on
RECURSIVE AddItems(_, _, _)
AddItems(x, i, n_chunks) ==
    IF i > Len(x.d) THEN x
    ELSE AddItems(AddChunks(x, x.d[i][1],
                            split_list_in_n_lists(x.d[i][2], i, n_chunks), 1, n_chunks),
                  i + 1, n_chunks)

\* the dictionary r with the elements of each of its lists
Elements(r) == [k \in DOMAIN r |-> r[k].v]

\* list(filter(lambda item: item != {}, results)), from results[i] on
RECURSIVE NotEmptyFrom(_, _)
NotEmptyFrom(results, i) ==
    IF i > Len(results) THEN <<>>
    ELSE (IF DOMAIN results[i] # {} THEN <<Elements(results[i])>> ELSE <<>>)
             \o NotEmptyFrom(results, i + 1)

\* results = [{} for i in range(n_chunks)], with d as handed in
EmptyResults(d, n_chunks) ==
    [results |-> [i \in 1..n_chunks |-> [k \in {} |-> <<>>]], d |-> d]

\* the state of dict_of_list_to_chunks(d, n_chunks) when its loops end
ChunksFilled(d, n_chunks) == AddItems(EmptyResults(d, n_chunks), 1, n_chunks)

\* dict_of_list_to_chunks(d, n_chunks): n_chunks empty dictionaries, filled
\* and then filtered for the ones that are not empty
dict_of_list_to_chunks(d, n_chunks) == NotEmptyFrom(ChunksFilled(d, n_chunks).results, 1)

\* longest list in a dictionary handed to dict_of_list_to_chunks
MaxListLen == 5
\* largest n_chunks
MaxChunks == 3

\* the lists: 1..n, and one with an element twice
ChunkLists == {[i \in 1..n |-> i] : n \in 0..MaxListLen} \cup {<<1, 1>>}

\* the dictionaries: up to two keys, in both orders
ChunkDicts ==
    {<<>>} \cup {<< <<k, l>> >> : k \in {"k1", "k2"}, l \in ChunkLists}
           \cup {<< <<k, l>>, <<IF k = "k1" THEN "k2" ELSE "k1", l2>> >> :
                   k \in {"k1", "k2"}, l \in ChunkLists, l2 \in ChunkLists}

\* a call of clear_dict about to be made
ClearDictCalls ==
    {[pc |-> "call", op |-> "clear_dict", d |-> d, keep |-> keep, dl |-> <<>>,
      n_chunks |-> 1, result |-> VNone, chunks |-> <<>>, dl0 |-> <<>>] :
        d \in Dicts, keep \in Keeps}

\* a call of dict_of_list_to_chunks about to be made
ChunkCalls ==
    {[pc |-> "call", op |-> "dict_of_list_to_chunks", d |-> VNone, keep |-> DefaultKeep,
      dl |-> dl, n_chunks |-> n, result |-> VNone, chunks |-> <<>>, dl0 |-> dl] :
        dl \in ChunkDicts, n \in 1..MaxChunks}

InitDict ==
    /\ cwd \in {P_root}
    /\ JoinIdle
    /\ fs = [dirs |-> {P_root}, files |-> NoFiles]
    /\ UnzipIdle
    /\ TextIdle
    /\ LogIdle
    /\ UploadIdle
    /\ FileOpIdle
    /\ dq \in ClearDictCalls \cup ChunkCalls

\* clear_dict(d, ...) returns
ClearDict ==
    /\ dq.pc = "call"
    /\ dq.op = "clear_dict"
    /\ dq' = [dq EXCEPT !.pc = "done", !.result = clear_dict(dq.d, dq.keep)]
    /\ UNCHANGED <<cwd, j_pc, j_root, j_segs, j_allow, j_result, fs, fs0, u, upload, fo, tc, lg>>

\* dict_of_list_to_chunks(d, n_chunks) returns
DictOfListToChunks ==
    /\ dq.pc = "call"
    /\ dq.op = "dict_of_list_to_chunks"
    /\ dq' = [dq EXCEPT !.pc = "done",
                        !.dl = ChunksFilled(dq.dl, dq.n_chunks).d,
                        !.chunks = dict_of_list_to_chunks(dq.dl, dq.n_chunks)]
    /\ UNCHANGED <<cwd, j_pc, j_root, j_segs, j_allow, j_result, fs, fs0, u, upload, fo, tc, lg>>

NextDict == ClearDict \/ DictOfListToChunks

SpecDict == InitDict /\ [][NextDict]_vars

-----------------------------------------------------------------------------
(* muty.time: time definitions.  A string is a sequence of one-character   *)
(* strings.  A number of milliseconds does not fit a machine word, so it   *)
(* is the pair <<hi, lo>> that stands for hi * 10^6 + lo, with lo in       *)
(* 0..10^6 - 1; a negative number has a negative hi.  The strings handed   *)
(* in are made of decimal digits and letters only, so float() accepts a    *)
(* string exactly when it is one or more digits.                           *)

\* most digits of the number in a time definition handed in
MaxDigits == 2

Big(hi, lo) == <<hi, lo>>

\* n * b
Times(n, b) == Big(n * b[1] + ((n * b[2]) \div 1000000), (n * b[2]) % 1000000)

\* a >= b
AtLeast(a, b) == a[1] > b[1] \/ (a[1] = b[1] /\ a[2] >= b[2])

\* int(a / b) for a >= 0 and b > 0 (below 1000 for every number handed in)
Quotient(a, b) == CHOOSE q \in 0..999 : AtLeast(a, Times(q, b)) /\ ~AtLeast(a, Times(q + 1, b))

DigitChars == <<"0", "1", "2", "3", "4", "5", "6", "7", "8", "9">>

IsDigit(c) == \E d \in 1..10 : DigitChars[d] = c

DigitOf(c) == (CHOOSE d \in 1..10 : DigitChars[d] = c) - 1

\* str(n), for an int n >= 0
RECURSIVE IntStr(_)
IntStr(n) == IF n < 10 THEN <<DigitChars[n + 1]>> ELSE IntStr(n \div 10) \o <<DigitChars[(n % 10) + 1]>>

\* the number a string of digits stands for
RECURSIVE DigitsValue(_)
DigitsValue(s) ==
    IF s = <<>> THEN 0 ELSE 10 * DigitsValue(SubSeq(s, 1, Len(s) - 1)) + DigitOf(s[Len(s)])

\* float(s) does not raise
IsFloat(s) == s # <<>> /\ \A i \in 1..Len(s) : IsDigit(s[i])

\* c.lower()
LowerChar(c) ==
    IF c = "M" THEN "m" ELSE IF c = "S" THEN "s" ELSE IF c = "H" THEN "h" ELSE c

\* s.lower()
Lower(s) == [i \in 1..Len(s) |-> LowerChar(s[i])]

\* s[-n:]
LastChars(s, n) == IF Len(s) <= n THEN s ELSE SubSeq(s, Len(s) - n + 1, Len(s))

\* s[:-n]
ButLastChars(s, n) == IF Len(s) <= n THEN <<>> ELSE SubSeq(s, 1, Len(s) - n)

\* what a call gives: the value returned, or the exception raised
Returns(v) == [err |-> "none", v |-> v]
Raises(err) == [err |-> err, v |-> None]

\* the dictionary multiplier of time_definition_to_milliseconds
multiplier ==
    (<<"m", "s">> :> Big(0, 1)) @@ (<<"s">> :> Big(0, 1000)) @@ (<<"m">> :> Big(0, 60000))
        @@ (<<"h">> :> Big(3, 600000)) @@ (<<"d">> :> Big(86, 400000))
        @@ (<<"w">> :> Big(604, 800000)) @@ (<<"M">> :> Big(2628, 0))
        @@ (<<"y">> :> Big(31536, 0))

\* float(number) * by
FloatTimes(number, by) ==
    IF IsFloat(number) THEN Returns(Times(DigitsValue(number), by)) ELSE Raises("ValueError")

\* time_definition_to_milliseconds, after time_str = time_str.lower()
ToMillisecondsLowered(time_str) ==
    IF LastChars(time_str, 2) = <<"m", "s">>
    THEN FloatTimes(ButLastChars(time_str, 2), Big(0, 1))
    ELSE IF time_str = <<>> THEN Raises("IndexError")
    ELSE IF LastChars(time_str, 1) \in DOMAIN multiplier
    THEN FloatTimes(ButLastChars(time_str, 1), multiplier[LastChars(time_str, 1)])
    ELSE Raises("ValueError")

time_definition_to_milliseconds(time_str) == ToMillisecondsLowered(Lower(time_str))

\* the list time_units of time_definition_from_milliseconds
time_units ==
    << << <<"y">>, Big(31536, 0) >>, << <<"M">>, Big(2628, 0) >>,
       << <<"w">>, Big(604, 800000) >>, << <<"d">>, Big(86, 400000) >>,
       << <<"h">>, Big(3, 600000) >>, << <<"m">>, Big(0, 60000) >>,
       << <<"s">>, Big(0, 1000) >>, << <<"m", "s">>, Big(0, 1) >> >>

\* time_definition_from_milliseconds: the loop over time_units, from unit i on
RECURSIVE FromMillisecondsAt(_, _)
FromMillisecondsAt(milliseconds, i) ==
    IF i > Len(time_units) THEN Returns(<<"0", "m", "s">>)
    ELSE IF AtLeast(milliseconds, time_units[i][2])
    THEN Returns(IntStr(Quotient(milliseconds, time_units[i][2])) \o time_units[i][1])
    ELSE FromMillisecondsAt(milliseconds, i + 1)

time_definition_from_milliseconds(milliseconds) ==
    IF milliseconds[1] < 0 THEN Raises("ValueError") ELSE FromMillisecondsAt(milliseconds, 1)

-----------------------------------------------------------------------------
(* muty.time.string_to_epoch_nsec_from_filepath.  An int read from the file *)
(* name is kept as its decimal digits, so that the comparisons with powers  *)
(* of ten and the multiplications by them are exact.  What                  *)
(* dateutil.parser.parse makes of a string is the environment's choice.     *)

\* s.split(separator), for a separator of one character
RECURSIVE SplitOn(_, _)
SplitOn(s, c) ==
    IF \A i \in 1..Len(s) : s[i] # c THEN <<s>>
    ELSE <<SubSeq(s, 1, (CHOOSE i \in 1..Len(s) : s[i] = c /\ \A k \in 1..(i - 1) : s[k] # c) - 1)>>
            \o SplitOn(SubSeq(s, (CHOOSE i \in 1..Len(s) : s[i] = c /\ \A k \in 1..(i - 1) : s[k] # c) + 1,
                              Len(s)), c)

\* the digits of int(s): s without its leading zeros
RECURSIVE IntDigits(_)
IntDigits(s) ==
    IF Len(s) > 1 /\ s[1] = "0" THEN IntDigits(SubSeq(s, 2, Len(s))) ELSE s

\* the digits of 10^k
PowerOfTen(k) == <<"1">> \o [i \in 1..k |-> "0"]

\* digits > 10^k, for the digits of an int
Exceeds(digits, k) ==
    Len(digits) > k + 1 \/ (Len(digits) = k + 1 /\ digits # PowerOfTen(k))

\* the digits of n * 10^k, for the digits of an int n > 0
TimesPowerOfTen(digits, k) == digits \o [i \in 1..k |-> "0"]

\* timestr.isnumeric()
IsNumeric(s) == s # <<>> /\ \A i \in 1..Len(s) : IsDigit(s[i])

\* string_to_epoch_nsec_from_filepath: the call of string_to_epoch_nsec and
\* the fallback to now_nsec()
EpochNsecParsed(parses, fallback_to_now) ==
    IF parses THEN Returns(<< <<"parsed">>, FALSE >>)
    ELSE IF fallback_to_now THEN Returns(<< <<"now">>, TRUE >>)
    ELSE Raises("ParserError")

\* string_to_epoch_nsec_from_filepath from timestr on; time_int holds the
\* digits of int(timestr)
EpochNsecOf(timestr, time_int, parses, fallback_to_now) ==
    IF IsNumeric(timestr) /\ Exceeds(time_int, 12) THEN Returns(<<time_int, FALSE>>)
    ELSE IF IsNumeric(timestr) /\ Exceeds(time_int, 9)
    THEN Returns(<<TimesPowerOfTen(time_int, 3), FALSE>>)
    ELSE IF IsNumeric(timestr) /\ Exceeds(time_int, 6)
    THEN Returns(<<TimesPowerOfTen(time_int, 6), FALSE>>)
    ELSE IF IsNumeric(timestr) /\ Exceeds(time_int, 3)
    THEN Returns(<<TimesPowerOfTen(time_int, 9), FALSE>>)
    ELSE EpochNsecParsed(parses, fallback_to_now)

\* parts[idx] does not raise IndexError
ValidIndex(parts, idx) == -Len(parts) <= idx /\ idx < Len(parts)

\* parts[idx]
Item(parts, idx) == IF idx >= 0 THEN parts[idx + 1] ELSE parts[Len(parts) + idx + 1]

\* if len(parts) < idx
IdxRefused(parts, idx) == Len(parts) < idx

\* string_to_epoch_nsec_from_filepath from parts on
EpochNsecFromParts(parts, idx, parses, fallback_to_now) ==
    IF IdxRefused(parts, idx) THEN Raises("ValueError")
    ELSE IF ~ValidIndex(parts, idx) THEN Raises("IndexError")
    ELSE EpochNsecOf(Item(parts, idx), IntDigits(Item(parts, idx)), parses, fallback_to_now)

\* the parts of the file's name: os.path.basename(...).split(separator)
PartsOf(filename_or_path, separator) == SplitOn(basename(filename_or_path), separator[1])

string_to_epoch_nsec_from_filepath(filename_or_path, separator, idx, parses, fallback_to_now) ==
    IF separator = <<>> THEN Raises("ValueError")
    ELSE EpochNsecFromParts(PartsOf(filename_or_path, separator), idx, parses, fallback_to_now)

-----------------------------------------------------------------------------
(* Calls into muty.time *)

\* largest idx handed to string_to_epoch_nsec_from_filepath (smallest: -MaxIdx)
MaxIdx == 3

\* the digits a number in a time definition is made of
NumberDigits == {"0", "1", "2"}

\* the numbers: up to MaxDigits digits, none included
Numbers == UNION {[1..n -> NumberDigits] : n \in 0..MaxDigits}

\* the units: the documented ones, two in upper case that are not, and none
Suffixes == { <<"m", "s">>, <<"s">>, <<"m">>, <<"h">>, <<"d">>, <<"w">>, <<"M">>, <<"y">>,
              <<"S">>, <<"H">>, <<>> }

TimeStrings == {n \o x : n \in Numbers, x \in Suffixes}

\* numbers of milliseconds: each unit once, and numbers next to them
Milliseconds ==
    { Big(-1, 999999), Big(0, 0), Big(0, 1), Big(0, 999), Big(0, 1000), Big(0, 1500),
      Big(0, 60000), Big(3, 600000), Big(7, 200000), Big(86, 400000), Big(604, 800000),
      Big(2628, 0), Big(2628, 1), Big(5256, 0), Big(31536, 0), Big(63072, 0) }

\* file names and paths: with a time in seconds, in milliseconds, a small
\* number, no number, and an empty name
FileNames ==
    { <<"a", "_", "b">>,
      <<"/", "x", "/", "1", "7", "0", "0", "0", "0", "0", "0", "0", "0", "_", "b">>,
      <<"a", "-", "1", "7", "0", "0", "0", "0", "0", "0", "0", "0", "0", "0", "0">>,
      <<"5", "_", "a", "_", "b">>,
      <<"/", "x", "/">> }

Separators == { <<"_">>, <<"-">>, <<>> }

TimeCalls ==
    {[pc |-> "call", op |-> "to_milliseconds", time_str |-> t, milliseconds |-> Big(0, 0),
      out |-> Raises("none")] : t \in TimeStrings}
    \cup {[pc |-> "call", op |-> "round_trip", time_str |-> <<>>, milliseconds |-> x,
           out |-> Raises("none")] : x \in Milliseconds}
    \cup {[pc |-> "call", op |-> "epoch_nsec", filename_or_path |-> f, separator |-> c,
           idx |-> i, parses |-> ok, fallback_to_now |-> fb, out |-> Raises("none")] :
            f \in FileNames, c \in Separators, i \in (-MaxIdx)..MaxIdx,
            ok \in BOOLEAN, fb \in BOOLEAN}

InitTime ==
    /\ cwd \in {P_root}
    /\ JoinIdle
    /\ fs = [dirs |-> {P_root}, files |-> NoFiles]
    /\ UnzipIdle
    /\ LogIdle
    /\ UploadIdle
    /\ FileOpIdle
    /\ DictIdle
    /\ tc \in TimeCalls

\* time_definition_from_milliseconds(milliseconds) returns or raises
TimeDefinitionFromMilliseconds ==
    /\ tc.pc = "call"
    /\ tc.op = "round_trip"
    /\ tc' = [tc EXCEPT
                !.pc = IF time_definition_from_milliseconds(tc.milliseconds).err = "none"
                       THEN "defined" ELSE "raised",
                !.time_str = IF time_definition_from_milliseconds(tc.milliseconds).err = "none"
                             THEN time_definition_from_milliseconds(tc.milliseconds).v
                             ELSE tc.time_str,
                !.out = time_definition_from_milliseconds(tc.milliseconds)]
    /\ UNCHANGED <<cwd, j_pc, j_root, j_segs, j_allow, j_result, fs, fs0, u, upload, fo, dq, lg>>

\* time_definition_to_milliseconds(time_str) returns or raises
TimeDefinitionToMilliseconds ==
    /\ \/ tc.pc = "call" /\ tc.op = "to_milliseconds"
       \/ tc.pc = "defined" /\ tc.op = "round_trip"
    /\ tc' = [tc EXCEPT
                !.pc = IF time_definition_to_milliseconds(tc.time_str).err = "none"
                       THEN "done" ELSE "raised",
                !.out = time_definition_to_milliseconds(tc.time_str)]
    /\ UNCHANGED <<cwd, j_pc, j_root, j_segs, j_allow, j_result, fs, fs0, u, upload, fo, dq, lg>>

\* string_to_epoch_nsec_from_filepath(...) returns or raises
StringToEpochNsecFromFilepath ==
    /\ tc.pc = "call"
    /\ tc.op = "epoch_nsec"
    /\ tc' = [tc EXCEPT
                !.pc = IF string_to_epoch_nsec_from_filepath(
                              tc.filename_or_path, tc.separator, tc.idx, tc.parses,
                              tc.fallback_to_now).err = "none"
                       THEN "done" ELSE "raised",
                !.out = string_to_epoch_nsec_from_filepath(
                            tc.filename_or_path, tc.separator, tc.idx, tc.parses,
                            tc.fallback_to_now)]
    /\ UNCHANGED <<cwd, j_pc, j_root, j_segs, j_allow, j_result, fs, fs0, u, upload, fo, dq, lg>>

NextTime ==
    \/ TimeDefinitionFromMilliseconds
    \/ TimeDefinitionToMilliseconds
    \/ StringToEpochNsecFromFilepath

SpecTime == InitTime /\ [][NextTime]_vars

-----------------------------------------------------------------------------
(* muty.string.make_shorter *)

\* longest string handed to make_shorter
MaxStrLen == 3
\* largest max_len handed to make_shorter
MaxMaxLen == 3
\* longest ellipsis handed to make_shorter
MaxEllipsisLen == 3

\* s[:k]: k characters from the start, or all but the last -k for k < 0
SliceTo(s, k) ==
    IF k >= 0 THEN SubSeq(s, 1, Min(k, Len(s)))
    ELSE IF Len(s) + k > 0 THEN SubSeq(s, 1, Len(s) + k) ELSE <<>>

make_shorter(s, max_len, ellipsis) ==
    IF s = None THEN <<>>
    ELSE IF Len(s) <= max_len THEN s
    ELSE SliceTo(s, max_len - Len(ellipsis)) \o ellipsis

\* the strings handed in, and None
ShortStrings == {None} \cup UNION {[1..n -> {"a", "b"}] : n \in 0..MaxStrLen}

Ellipses == {[i \in 1..n |-> "."] : n \in 0..MaxEllipsisLen}

StringCalls ==
    {[pc |-> "call", op |-> "make_shorter", s |-> s, max_len |-> n, ellipsis |-> e,
      out |-> None] : s \in ShortStrings, n \in 0..MaxMaxLen, e \in Ellipses}

InitString ==
    /\ cwd \in {P_root}
    /\ JoinIdle
    /\ fs = [dirs |-> {P_root}, files |-> NoFiles]
    /\ UnzipIdle
    /\ LogIdle
    /\ UploadIdle
    /\ FileOpIdle
    /\ DictIdle
    /\ tc \in StringCalls

\* make_shorter(s, max_len, ellipsis) returns
MakeShorter ==
    /\ tc.pc = "call"
    /\ tc.op = "make_shorter"
    /\ tc' = [tc EXCEPT !.pc = "done", !.out = make_shorter(tc.s, tc.max_len, tc.ellipsis)]
    /\ UNCHANGED <<cwd, j_pc, j_root, j_segs, j_allow, j_result, fs, fs0, u, upload, fo, dq, lg>>

NextString == MakeShorter

SpecString == InitString /\ [][NextString]_vars

-----------------------------------------------------------------------------
(* muty.log: the module's global _logger.  A logger is named by its object: *)
(* MutyLogger is logging.getLogger("muty"), the one configure_logger("muty")*)
(* configures; its configuration is [level, handlers, installs], installs   *)
(* counting the calls of coloredlogs.install on it.  lg holds the global,   *)
(* that configuration, and the last call with what it gave; stored is the   *)
(* logger last assigned to _logger, written down where the assignment runs. *)

\* most calls into muty.log in a run
MaxCalls == 3

\* the object logging.getLogger("muty") gives, at every call the same
MutyLogger == <<"muty">>

\* logging.getLogger("muty") before anyone configured it
Unconfigured == [level |-> "NOTSET", handlers |-> <<"none">>, installs |-> 0]

\* configure_logger("muty", log_file, level): setLevel, then the handlers
\* (the file of a RotatingFileHandler is opened when it is made, which can
\* fail), then the install
configure_logger(muty, log_file, level, opens) ==
    IF log_file # None /\ ~opens
    THEN [err |-> "OSError", muty |-> [muty EXCEPT !.level = level]]
    ELSE [err |-> "none",
          muty |-> [level |-> level,
                    handlers |-> IF log_file = None THEN <<"stdout">> ELSE <<"stdout", log_file>>,
                    installs |-> muty.installs + 1]]

\* internal_logger never returns the existing logger
InternalLoggerReusesNever(logger, force_reconfigure) == FALSE

\* if _logger is not None and not force_reconfigure
InternalLoggerReuses(logger, force_reconfigure) == logger # None /\ ~force_reconfigure

\* the module after a call: the global, the configuration of "muty", what
\* the call returned or raised, and whether it assigned to _logger
LogCallEnds(logger, muty, ret, err, assigned) ==
    [logger |-> logger, muty |-> muty, ret |-> ret, err |-> err, assigned |-> assigned]

\* set_default_logger(l)
set_default_logger(g, l) == LogCallEnds(l, g.muty, None, "none", TRUE)

\* get_default_logger()
get_default_logger(g) ==
    IF g.logger = None THEN LogCallEnds(g.logger, g.muty, None, "Exception", FALSE)
    ELSE LogCallEnds(g.logger, g.muty, g.logger, "none", FALSE)

\* internal_logger: _logger = configure_logger("muty", ...); return _logger
InternalLoggerConfigured(g, c) ==
    IF c.err # "none" THEN LogCallEnds(g.logger, c.muty, None, c.err, FALSE)
    ELSE LogCallEnds(MutyLogger, c.muty, MutyLogger, "none", TRUE)

\* internal_logger(log_to_file, level, force_reconfigure)
internal_logger(g, log_to_file, level, force_reconfigure, opens) ==
    IF InternalLoggerReuses(g.logger, force_reconfigure)
    THEN LogCallEnds(g.logger, g.muty, g.logger, "none", FALSE)
    ELSE InternalLoggerConfigured(g, configure_logger(g.muty, log_to_file, level, opens))

\* the loggers a caller hands to set_default_logger, None included
Loggers == {<<"L1">>, <<"L2">>, MutyLogger, None}

LogFiles == {None, <<"l">>}

Levels == {"DEBUG", "INFO"}

\* the module as imported: _logger = None
InitLog ==
    /\ cwd \in {P_root}
    /\ JoinIdle
    /\ fs = [dirs |-> {P_root}, files |-> NoFiles]
    /\ UnzipIdle
    /\ TextIdle
    /\ UploadIdle
    /\ FileOpIdle
    /\ DictIdle
    /\ lg = [pc |-> "ready", logger |-> None, muty |-> Unconfigured, stored |-> None,
             calls |-> 0, op |-> "import", force_reconfigure |-> FALSE,
             ret |-> None, err |-> "none",
             before |-> [logger |-> None, muty |-> Unconfigured]]

\* lg after the call op that ended as r
LogAfter(op, force_reconfigure, r, assigned_logger) ==
    [pc |-> "ready", logger |-> r.logger, muty |-> r.muty,
     stored |-> IF r.assigned THEN assigned_logger ELSE lg.stored,
     calls |-> lg.calls + 1, op |-> op, force_reconfigure |-> force_reconfigure,
     ret |-> r.ret, err |-> r.err,
     before |-> [logger |-> lg.logger, muty |-> lg.muty]]

SetDefaultLogger ==
    /\ lg.pc = "ready"
    /\ lg.calls < MaxCalls
    /\ \E l \in Loggers :
         lg' = LogAfter("set_default_logger", FALSE, set_default_logger(lg, l), l)
    /\ UNCHANGED <<cwd, j_pc, j_root, j_segs, j_allow, j_result, fs, fs0, u, upload, fo, dq, tc>>

GetDefaultLogger ==
    /\ lg.pc = "ready"
    /\ lg.calls < MaxCalls
    /\ lg' = LogAfter("get_default_logger", FALSE, get_default_logger(lg), None)
    /\ UNCHANGED <<cwd, j_pc, j_root, j_segs, j_allow, j_result, fs, fs0, u, upload, fo, dq, tc>>

InternalLogger ==
    /\ lg.pc = "ready"
    /\ lg.calls < MaxCalls
    /\ \E log_to_file \in LogFiles, level \in Levels, force \in BOOLEAN, opens \in BOOLEAN :
         lg' = LogAfter("internal_logger", force,
                        internal_logger(lg, log_to_file, level, force, opens), MutyLogger)
    /\ UNCHANGED <<cwd, j_pc, j_root, j_segs, j_allow, j_result, fs, fs0, u, upload, fo, dq, tc>>

NextLog == SetDefaultLogger \/ GetDefaultLogger \/ InternalLogger

SpecLog == InitLog /\ [][NextLog]_vars

-----------------------------------------------------------------------------
(* Claims about safe_path_join *)

\* C1: with allow_relative=True the returned path, made absolute and
\* normalized, is the root or lies below it component-wise.
C1_RelativeStaysInRoot ==
    (j_pc = "done" /\ j_allow) => Within(abspath(cwd, j_result), NormRoot)

\* C2: with allow_relative=False the returned path, made absolute and
\* normalized, is the root or lies below it component-wise.
C2_BasenameStaysInRoot ==
    (j_pc = "done" /\ ~j_allow) => Within(abspath(cwd, j_result), NormRoot)

\* a traversal attempt was made with allow_relative=False and confined
C2_Witness ==
    /\ j_pc = "done"
    /\ ~j_allow
    /\ j_segs = << <<".", ".">>, <<"/", "a">> >>
    /\ j_root = <<"/", "a", "/", "b">>
    /\ j_result = <<"/", "a", "/", "b", "/", "a">>

\* C10: with allow_relative=False and at least one segment, the result is
\* the normalized root joined with the basename of the last segment.
C10_LastSegmentBasename ==
    (j_pc = "done" /\ ~j_allow /\ j_segs # <<>>)
        => j_result = join2(NormRoot, basename(j_segs[Len(j_segs)]))

\* C11: with no segments the result is the absolute, normalized root, for
\* either value of allow_relative.
C11_NoSegmentsGivesRoot ==
    (j_pc = "done" /\ j_segs = <<>>) => j_result = NormRoot

\* every argument of the call is a string
AllStr == ~NotAllStr(j_root, j_segs)

\* C12: a call with string arguments never raises; its result is an absolute
\* path, whatever traversal the segments attempt.
C12_NeverRaises ==
    (j_pc # "call" /\ AllStr)
        => /\ j_pc \in {"done", "again"}
           /\ isabs(j_result)
           /\ \A i \in 1..Len(j_result) : j_result[i] \in Chars

\* a traversal above the root was answered with the root
C12_Witness ==
    /\ j_pc = "done"
    /\ j_allow
    /\ j_root = <<"/", "a", "/", "b">>
    /\ j_segs = << <<".", ".">>, <<".", ".">> >>
    /\ j_result = <<"/", "a", "/", "b">>

\* p, made absolute and normalized, is the root or lies below it
InRoot(p) == Within(abspath(cwd, p), NormRoot)

\* C13 as stated: a result p that lies inside the root is returned again
\* when it is joined to the root a second time with the same mode.
C13_IdempotentInRoot ==
    (j_pc = "again" /\ InRoot(j_segs[1])) => j_result = j_segs[1]

\* C13, amended: a result p that is normalized and lies inside the root is
\* returned again when it is joined to the root a second time.
C13_IdempotentNormalizedInRoot ==
    (j_pc = "again" /\ InRoot(j_segs[1]) /\ normpath(j_segs[1]) = j_segs[1])
        => j_result = j_segs[1]

\* the basename-only result /a/b was joined to the root /a again and came back
C13_Witness ==
    /\ j_pc = "again"
    /\ ~j_allow
    /\ j_root = <<"/", "a">>
    /\ j_segs = << <<"/", "a", "/", "b">> >>
    /\ j_result = <<"/", "a", "/", "b">>

-----------------------------------------------------------------------------
(* Claims about one unzip call (Spec) *)

\* the destination the caller named, as an absolute path
AbsDest(p) == abspath(cwd, u[p].arg)

\* the caller named a destination that did not exist and that the call created
CreatedByCall(p) ==
    /\ u[p].arg # None
    /\ ~Exists(fs0, AbsDest(p))
    /\ Ancestors(AbsDest(p)) \cap DOMAIN fs0.files = {}

\* paths of files that were created or rewritten since the call started
Written == {x \in DOMAIN fs.files : x \notin DOMAIN fs0.files \/ fs.files[x] # fs0.files[x]}

\* C3: when the call created the destination the caller named and a later
\* step failed, the destination does not exist once the exception is raised.
C3_FreshDestRolledBack ==
    \A p \in Tasks :
        (u[p].pc = "raised" /\ CreatedByCall(p)) => ~Exists(fs, AbsDest(p))

\* C4: when the destination was a directory before the call and extraction
\* failed, the directory and all that was in it still exist.
C4_ExistingDestKept ==
    \A p \in Tasks :
        (u[p].pc = "raised" /\ u[p].arg # None /\ AbsDest(p) \in fs0.dirs)
            => /\ AbsDest(p) \in fs.dirs
               /\ \A x \in Paths(fs0) : Within(x, AbsDest(p)) => Exists(fs, x)

\* C5: every file the call creates or rewrites lies in the absolute
\* destination directory, whatever the member names.
C5_WritesStayInDest ==
    \A p \in {1} :
        u[p].pc # "idle"
            => \A x \in Written :
                   /\ u[p].dest_dir # None
                   /\ isabs(u[p].dest_dir)
                   /\ x # u[p].dest_dir
                   /\ Within(x, u[p].dest_dir)

\* an archive with a ".." member was extracted into /b/a
C5_Witness ==
    /\ u[1].pc = "returned"
    /\ u[1].f.members = << <<".", ".", "/", "b">>, <<"a">> >>
    /\ u[1].arg = P_ba
    /\ Written = {P_ba \o <<"/", "b">>, P_ba \o <<"/", "a">>}

\* the archive can be read, nothing fails while writing, and no member is a
\* file where another member needs a directory
WellFormed(fr) ==
    /\ fr.f.state = "ok"
    /\ fr.failAt = 0
    /\ \A i \in 1..Len(fr.f.members) :
          LET ti == SanitizedArcname(fr.f.members[i])
          IN  /\ ti # <<>>
              /\ ~EndsWith(fr.f.members[i], <<"/">>)
                   => \A k \in 1..Len(fr.f.members) :
                          LET tk == SanitizedArcname(fr.f.members[k])
                          IN  Within(tk, ti)
                                => (tk = ti /\ ~EndsWith(fr.f.members[k], <<"/">>))

\* every member of the archive is present below directory d
MembersPresent(fr, d) ==
    \A i \in 1..Len(fr.f.members) :
        LET t == join2(d, SanitizedArcname(fr.f.members[i]))
        IN  IF EndsWith(fr.f.members[i], <<"/">>)
            THEN t \in fs.dirs
            ELSE t \in DOMAIN fs.files /\ fs.files[t] = fr.f.data

\* C6: a well-formed archive and a destination that does not exist yet: the
\* call returns, the destination and its parents exist, every member is
\* present below it, and the returned value is its absolute path.
C6_ExtractIntoFreshDest ==
    \A p \in {1} :
        (u[p].pc \in Terminal /\ CreatedByCall(p) /\ WellFormed(u[p]))
            => /\ u[p].pc = "returned"
               /\ AbsDest(p) \in fs.dirs
               /\ Ancestors(AbsDest(p)) \subseteq fs.dirs
               /\ MembersPresent(u[p], AbsDest(p))
               /\ u[p].ret = AbsDest(p)

\* a two-member archive was extracted into a destination whose parent was missing
C6_Witness ==
    /\ u[1].pc = "returned"
    /\ CreatedByCall(1)
    /\ WellFormed(u[1])
    /\ u[1].arg = P_ba
    /\ P_b \notin fs0.dirs
    /\ Len(u[1].f.members) = 2

\* C7: with dest_dir omitted, success returns a temporary directory that is
\* new, exists and holds the members; after a failure no temporary directory
\* of the call exists.
C7_TempDest ==
    \A p \in {1} :
        u[p].arg = None
            => /\ u[p].pc = "returned"
                    => /\ u[p].ret \in TempNames
                       /\ ~Exists(fs0, u[p].ret)
                       /\ u[p].ret \in fs.dirs
                       /\ MembersPresent(u[p], u[p].ret)
                       /\ \A x \in Written : Within(x, u[p].ret)
               /\ u[p].pc = "raised"
                    => \A n \in TempNames : \A x \in Paths(fs) : ~Within(x, n)

\* extraction into a temporary directory failed at the second member
C7_Witness ==
    /\ u[1].arg = None
    /\ u[1].pc = "raised"
    /\ u[1].failAt = 2
    /\ u[1].e = "OSError"

\* the failure the call's inputs lead to, where the archive cannot be opened
OpenFailure(fr) ==
    IF fr.f.state = "missing" THEN "FileNotFoundError" ELSE "BadZipFile"

\* C8: a failed call raises the failure of the failing step, after the
\* cleanup; no failure is swallowed or replaced.
C8_OriginalFailureRaised ==
    \A p \in {1} :
        /\ u[p].pc = "raised"
             => /\ u[p].e # "none"
                /\ u[p].exc = u[p].e
                /\ (u[p].created /\ u[p].dest_dir # None) => ~Exists(fs, u[p].dest_dir)
                /\ u[p].mkdtempFails => u[p].exc = "OSError"
                /\ (u[p].f.state # "ok" /\ ~u[p].mkdtempFails
                      /\ ~(\E x \in DOMAIN fs0.files : Within(abspath(cwd, u[p].dest_dir), x)))
                     => u[p].exc = OpenFailure(u[p])
        /\ u[p].pc = "returned"
             => /\ u[p].e = "none"
                /\ u[p].exc = "none"
                /\ u[p].f.state = "ok"
                /\ u[p].failAt = 0
                /\ ~u[p].mkdtempFails

\* a malformed archive: the cleanup removed the temporary directory and
\* BadZipFile reached the caller
C8_Witness ==
    /\ u[1].pc = "raised"
    /\ u[1].f.state = "bad"
    /\ u[1].created
    /\ u[1].exc = "BadZipFile"
    /\ u[1].tmp \in TempNames
    /\ ~Exists(fs, u[1].tmp)

-----------------------------------------------------------------------------
(* Claims about two interleaved unzip calls (SpecConc) *)

\* the call of task p, run alone on the file system the tasks started from
Alone(p) ==
    LET s == UnzipEnter(fs0, u[p].f, u[p].arg, u[p].failAt, u[p].tmp, u[p].mkdtempFails)
    IN  RunAlone(s.fs, cwd, s.fr)

\* the outcome of task p's call and its destination are as if it had run alone
SameAsAlone(p) ==
    LET s == Alone(p)
    IN  /\ u[p].pc = s.fr.pc
        /\ u[p].exc = s.fr.exc
        /\ u[p].ret = s.fr.ret
        /\ u[p].dest_dir = s.fr.dest_dir
        /\ u[p].dest_dir # None
             => Subtree(fs, u[p].dest_dir) = Subtree(s.fs, u[p].dest_dir)

BothDone == \A p \in Tasks : u[p].pc \in Terminal

\* one of the two calls started while the other was under way
Concurrent == \E p \in Tasks : u[p].overlap

DistinctDests(p, q) ==
    u[p].dest_dir # None /\ u[q].dest_dir # None /\ u[p].dest_dir # u[q].dest_dir

SeparateDests(p, q) ==
    /\ DistinctDests(p, q)
    /\ ~Within(u[p].dest_dir, u[q].dest_dir)
    /\ ~Within(u[q].dest_dir, u[p].dest_dir)

\* C9 as stated: two interleaved calls with distinct absolute destinations
\* each end as if they had run alone.
C9_DistinctDestsIndependent ==
    \A p \in Tasks : \A q \in Tasks \ {p} :
        (BothDone /\ Concurrent /\ DistinctDests(p, q)) => SameAsAlone(p)

\* C9, amended: two interleaved calls whose destinations are distinct and
\* neither inside the other each end as if they had run alone.
C9_SeparateDestsIndependent ==
    \A p \in Tasks : \A q \in Tasks \ {p} :
        (BothDone /\ Concurrent /\ SeparateDests(p, q)) => SameAsAlone(p)

\* two overlapping calls with separate destinations ended, one cleaned up
\* its destination after a failure and the other extracted into its own
C9_Witness ==
    /\ BothDone
    /\ SeparateDests(1, 2)
    /\ u[2].overlap
    /\ u[1].pc = "raised" /\ u[1].created /\ ~Exists(fs, u[1].dest_dir)
    /\ u[2].pc = "returned" /\ u[2].dest_dir = P_ba
    /\ MembersPresent(u[2], P_ba)

-----------------------------------------------------------------------------
(* Claims about muty.uploadfile (SpecUpload) *)

\* the directory the call works in was a directory before the call or could
\* be made one: neither it nor a directory above it was a file
DestUsable ==
    (Ancestors(upload.dest) \cup {upload.dest}) \cap DOMAIN fs0.files = {}

\* the failure of the write that to_path attempts for upload i
WriteFailure(i) ==
    IF upload.paths[i] \in fs0.dirs THEN "IsADirectoryError" ELSE "ReadError"

\* C14: when the write of to_path fails, the partly written file is gone, a
\* destination directory the call created is gone, a destination directory
\* that existed before the call is still there, and the failure of the write
\* is raised.
C14_ToPathFailureCleanup ==
    (upload.pc = "raised" /\ upload.op = "to_path" /\ DestUsable)
        => /\ upload.paths[1] \notin DOMAIN fs.files
           /\ ~Exists(fs0, upload.dest) => ~Exists(fs, upload.dest)
           /\ upload.dest \in fs0.dirs => upload.dest \in fs.dirs
           /\ upload.exc = WriteFailure(1)

\* C15: when an upload of to_path_multi fails, a generated temporary
\* directory is gone with the files saved so far, a directory the caller
\* supplied is still there with the files that were in it, and the failure
\* is raised.
C15_ToPathMultiFailureCleanup ==
    (upload.pc = "raised" /\ upload.op = "to_path_multi")
        => /\ upload.arg = None => \A x \in Paths(fs) : ~Within(x, upload.dest)
           /\ (upload.arg # None /\ upload.dest \in fs0.dirs)
                => /\ upload.dest \in fs.dirs
                   /\ \A x \in DOMAIN fs0.files :
                          Within(x, upload.dest) => x \in DOMAIN fs.files
           /\ upload.exc # "none"

\* C16: however uploadfile.unzip ends, the file the upload was downloaded to
\* does not exist afterwards.
C16_DownloadedFileRemoved ==
    (upload.pc \in {"returned", "raised"} /\ upload.op = "unzip")
        => ~Exists(fs, upload.paths[1])

\* an upload was downloaded and extracted into the directory the caller
\* named, and the downloaded file is gone
C16_Witness ==
    /\ upload.pc = "returned"
    /\ upload.op = "unzip"
    /\ upload.arg = P_b
    /\ upload.upls[1].content = "zip1"
    /\ upload.ret = P_b
    /\ P_ba \in DOMAIN fs.files
    /\ ~Exists(fs, upload.paths[1])
    /\ upload.dest \in fs.dirs

-----------------------------------------------------------------------------
(* Claims about delete, write and read (SpecFile) *)

\* the file or directory the last call's path names
Target == OsPath(cwd, fo.path)

\* the delete call just made, made with the other variant on the same file
\* system
OtherDelete ==
    IF fo.variant = "sync"
    THEN delete_file_or_dir_async(fs0, cwd, fo.path, fo.ignore_errors)
    ELSE delete_file_or_dir(fs0, cwd, fo.path, fo.ignore_errors)

\* C17: after a delete call returns for an existing file or directory tree
\* nothing exists at the path; a None path changes nothing; a missing path
\* with ignore_errors=False raises FileNotFoundError and changes nothing;
\* the sync and the async variant end alike.
C17_DeleteOutcome ==
    fo.pc = "deleted"
        => /\ fo.path = None => (fo.err = "none" /\ fs = fs0)
           /\ (fo.path # None /\ fo.err = "none" /\ Exists(fs0, Target))
                => \A x \in Paths(fs) : ~Within(x, Target)
           /\ (fo.path # None /\ ~fo.ignore_errors /\ ~Exists(fs0, Target))
                => (fo.err = "FileNotFoundError" /\ fs = fs0)
           /\ OtherDelete.fs = fs
           /\ OtherDelete.err = fo.err

\* the directory tree /a, holding /a/b/a, was deleted by the sync variant
C17_Witness ==
    /\ fo.pc = "deleted"
    /\ fo.variant = "sync"
    /\ fo.path = P_a
    /\ fo.err = "none"
    /\ P_aba \in DOMAIN fs0.files
    /\ ~Exists(fs, P_a)

\* C18: a read right after a write that returned gives the written content
\* when append=False, whatever the file held, and the previous content
\* followed by the written content when append=True.
C18_WriteReadRoundTrip ==
    fo.pc = "read"
        => /\ fo.err = "none"
           /\ fo.b = IF fo.append THEN fo.prev \o fo.content ELSE fo.content

\* content was appended to a file that held bytes, and read back
C18_Witness ==
    /\ fo.pc = "read"
    /\ fo.append
    /\ fo.prev # <<>>
    /\ fo.content # <<>>
    /\ fo.b = fo.prev \o fo.content

-----------------------------------------------------------------------------
(* Claims about muty.dict (SpecDict) *)

\* value v is None or holds a None at some level of nesting
RECURSIVE ContainsNone(_)
ContainsNone(v) ==
    \/ v.t = "none"
    \/ v.t = "list" /\ \E i \in 1..Len(v.items) : ContainsNone(v.items[i])
    \/ v.t = "dict" /\ \E k \in DOMAIN v.m : ContainsNone(v.m[k])

\* C19: with the default flags the dictionary clear_dict returns holds no
\* None at any level, nested dictionaries and lists included.
C19_NoNoneLeft ==
    (dq.pc = "done" /\ dq.op = "clear_dict" /\ dq.keep = DefaultKeep)
        => ~ContainsNone(dq.result)

\* some list of the dictionary has at least n elements
SomeListAtLeast(d, n) == \E i \in 1..Len(d) : Len(d[i][2]) >= n

\* C20: when some list of d has at least n_chunks elements, the call returns
\* exactly n_chunks dictionaries, none of them empty.
C20_ExactlyNChunks ==
    (dq.pc = "done" /\ dq.op = "dict_of_list_to_chunks"
       /\ SomeListAtLeast(dq.dl0, dq.n_chunks))
        => /\ Len(dq.chunks) = dq.n_chunks
           /\ \A i \in 1..Len(dq.chunks) : DOMAIN dq.chunks[i] # {}

\* a call of dict_of_list_to_chunks has returned
ChunksDone == dq.pc = "done" /\ dq.op = "dict_of_list_to_chunks"

\* how many times e is in the list l
Count(l, e) == Cardinality({i \in 1..Len(l) : l[i] = e})

\* how many times e is in the lists under key k of chunks[i], chunks[i+1], ...
RECURSIVE CountUnder(_, _, _, _)
CountUnder(chunks, k, e, i) ==
    IF i > Len(chunks) THEN 0
    ELSE (IF k \in DOMAIN chunks[i] THEN Count(chunks[i][k], e) ELSE 0)
             + CountUnder(chunks, k, e, i + 1)

\* the elements of the list l, and of the lists under key k of chunks
ElementsOf(l) == {l[i] : i \in 1..Len(l)}
ElementsUnder(chunks, k) ==
    UNION {ElementsOf(chunks[i][k]) : i \in {j \in 1..Len(chunks) : k \in DOMAIN chunks[j]}}

\* C21: dict_of_list_to_chunks(d, n_chunks) with n_chunks >= 1 returns at
\* most n_chunks dictionaries, none of them empty; for every key of d with a
\* list that is not empty, the lists under that key in the returned
\* dictionaries hold together the elements of d's list, each as many times;
\* and d is after the call what it was before it.
C21_NothingLostOrDuplicated ==
    (ChunksDone /\ dq.n_chunks >= 1)
        => /\ Len(dq.chunks) <= dq.n_chunks
           /\ \A i \in 1..Len(dq.chunks) : DOMAIN dq.chunks[i] # {}
           /\ \A i \in 1..Len(dq.dl0) :
                Len(dq.dl0[i][2]) > 0
                    => \A e \in ElementsOf(dq.dl0[i][2]) \cup ElementsUnder(dq.chunks, dq.dl0[i][1]) :
                          CountUnder(dq.chunks, dq.dl0[i][1], e, 1) = Count(dq.dl0[i][2], e)
           /\ dq.dl = dq.dl0

\* a list of five elements in two chunks: the third slice is appended to the
\* first dictionary's list, next to a list shorter than n_chunks
C21_Witness ==
    /\ ChunksDone
    /\ dq.n_chunks = 2
    /\ dq.dl0 = << <<"k1", <<1, 2, 3, 4, 5>> >>, <<"k2", <<1>> >> >>
    /\ dq.chunks = << [k1 |-> <<1, 2, 5>>, k2 |-> <<1>>], [k1 |-> <<3, 4>>] >>
    /\ dq.dl = dq.dl0

-----------------------------------------------------------------------------
(* Claims about muty.time (SpecTime) *)

\* a call into muty.time has returned or raised
TimeCallEnded(op) == tc.pc \in {"done", "raised"} /\ tc.op = op

\* the documented units with their values in milliseconds
DocumentedUnits ==
    (<<"m", "s">> :> Big(0, 1)) @@ (<<"s">> :> Big(0, 1000)) @@ (<<"m">> :> Big(0, 60000))
        @@ (<<"h">> :> Big(3, 600000)) @@ (<<"d">> :> Big(86, 400000))
        @@ (<<"w">> :> Big(604, 800000)) @@ (<<"M">> :> Big(2628, 0))
        @@ (<<"y">> :> Big(31536, 0))

\* time_str is a number followed by the unit x
NumberWithUnit(time_str, x) ==
    /\ LastChars(time_str, Len(x)) = x
    /\ IsFloat(ButLastChars(time_str, Len(x)))

\* C22: time_definition_to_milliseconds maps a number n followed by a
\* documented unit to n times the unit's milliseconds (ms=1, s=1000,
\* m=60000, h=3600000, d=86400000, w=604800000, M=2628000000,
\* y=31536000000), and so gives back x when applied to
\* time_definition_from_milliseconds(x), for every x that is one whole unit.
C22_UnitsAndRoundTrip ==
    /\ TimeCallEnded("to_milliseconds")
         => \A x \in DOMAIN DocumentedUnits :
               NumberWithUnit(tc.time_str, x)
                   => tc.out = Returns(Times(DigitsValue(ButLastChars(tc.time_str, Len(x))),
                                             DocumentedUnits[x]))
    /\ (TimeCallEnded("round_trip")
          /\ \E x \in DOMAIN DocumentedUnits : tc.milliseconds = DocumentedUnits[x])
         => tc.out = Returns(tc.milliseconds)

\* C23: string_to_epoch_nsec_from_filepath raises ValueError for every idx
\* that is at or beyond the number of parts of the file's basename split on
\* the separator, with fallback_to_now set and not set.
C23_InvalidIdxRaisesValueError ==
    (TimeCallEnded("epoch_nsec") /\ tc.separator # <<>>
       /\ tc.idx >= Len(PartsOf(tc.filename_or_path, tc.separator)))
        => tc.out = Raises("ValueError")

-----------------------------------------------------------------------------
(* Claims about muty.string (SpecString) *)

\* C24: make_shorter(s, max_len, ellipsis) returns at most max_len
\* characters for every string s, max_len >= 0 and ellipsis; a string of at
\* most max_len characters is returned as it is, and None gives the empty
\* string.
C24_AtMostMaxLen ==
    (tc.pc = "done" /\ tc.op = "make_shorter" /\ tc.max_len >= 0)
        => /\ tc.s # None => Len(tc.out) <= tc.max_len
           /\ (tc.s # None /\ Len(tc.s) <= tc.max_len) => tc.out = tc.s
           /\ tc.s = None => tc.out = <<>>

-----------------------------------------------------------------------------
(* Claims about muty.log (SpecLog) *)

\* C25: the module keeps one default logger.  After any calls of
\* set_default_logger and internal_logger, the global is the logger stored
\* last by either of them; get_default_logger returns it, and raises exactly
\* when none (or None) is stored; internal_logger(force_reconfigure=False)
\* with a logger stored returns that logger, stores nothing and configures
\* nothing.
C25_SingleDefaultLogger ==
    lg.pc = "ready"
        => /\ lg.logger = lg.stored
           /\ lg.op = "get_default_logger"
                => /\ (lg.err # "none") <=> (lg.stored = None)
                   /\ lg.err = "none" => lg.ret = lg.stored
                   /\ lg.logger = lg.before.logger
           /\ (lg.op = "internal_logger" /\ ~lg.force_reconfigure /\ lg.before.logger # None)
                => /\ lg.err = "none"
                   /\ lg.ret = lg.before.logger
                   /\ lg.logger = lg.before.logger
                   /\ lg.muty = lg.before.muty

\* a caller's logger was stored over the configured one, and a later
\* internal_logger(force_reconfigure=False) returned it
C25_Witness ==
    /\ lg.pc = "ready"
    /\ lg.calls = 3
    /\ lg.op = "internal_logger"
    /\ ~lg.force_reconfigure
    /\ lg.before.logger = <<"L1">>
    /\ lg.ret = <<"L1">>
    /\ lg.muty.installs = 1

====
